---- MODULE Spec2Model ----
(***************************************************************************)
(* Seismic catalog analysis engine of QuakeInsight                         *)
(* (src/app/api/analyze/route.ts): performDeclustering with its four       *)
(* strategies; the DBSCAN, k-means and fuzzy modes of performClustering;   *)
(* the Gutenberg-Richter case of performEDA and calculateBValue.           *)
(*                                                                         *)
(* Units.  The code works on IEEE doubles; the model works on a grid on    *)
(* which every quantity the code compares is an exact integer:             *)
(*   time       seconds            (code: epoch milliseconds)              *)
(*   latitude,                                                             *)
(*   longitude  1/8 degree         (so eps = 0.5 degree = 4 units)         *)
(*   magnitude  tenths             (20 = M2.0)                             *)
(* A distance test  sqrt(dLat^2 + dLng^2) <= w  of the code is modelled    *)
(* as  dLat^2 + dLng^2 <= floor(64 * w^2)  on the squared grid distance.   *)
(* An event is a JavaScript object: its identity is the field id, which    *)
(* Array.includes, Set.has and !== compare.                                *)
(* The k-means and Gutenberg-Richter sections use finer units for the      *)
(* quantity they resolve (1/40000 degree, hundredths of magnitude); each   *)
(* states its own.                                                         *)
(***************************************************************************)
EXTENDS Integers, Sequences, FiniteSets, TLC

VARIABLES
    data,         \* the catalog handed to performDeclustering / dbscan
    subType,      \* the algorithm name of the request
    sortedData,   \* performDeclustering: [...data].sort(by time)
    algorithm,    \* decluster(): the strategy name of the dispatch
    pc,           \* position of the run
    mainshocks,   \* decluster(): const mainshocks
    aftershocks,  \* decluster(): const aftershocks
    i,            \* index of the outer forEach (1-based)
    j,            \* index of the inner forEach over events.slice(i + 1)
    timeWindow,   \* const timeWindow of the current outer iteration
    spaceWindow,  \* const spaceWindow of the current outer iteration
    clusters,     \* dbscan: const clusters
    noise,        \* performClustering.dbscan: const noise
    visited,      \* dbscan: const visited (a Set of objects, here of ids)
    queue,        \* dbscan: const queue of the cluster being expanded
    eps,          \* dbscan: eps
    minPts,       \* dbscan: minPts
    result,       \* the returned record, or NoResult
    error,        \* the thrown Error, or NoError
    run,          \* number of the call on this catalog (1, or 2 when repeated)
    previous,     \* what the first call returned, once the call is repeated
    centroids,    \* kmeans: const centroids
    kmeansK,      \* kmeans: k
    maxIterations,\* kmeans: maxIterations
    draws,        \* kmeans: the randomIndex values Math.random gave
    magnitudeCounts, \* Gutenberg Richter Law: const magnitudeCounts
    cumulativeCount, \* Gutenberg Richter Law: let cumulativeCount
    grData,       \* Gutenberg Richter Law: const grData
    bValue,       \* Gutenberg Richter Law: const bValue
    omoriData,    \* Omori Law: const omoriData
    omoriParams,  \* Omori Law: const omoriParams
    nodeEnv,      \* POST: process.env.NODE_ENV
    dataSource,   \* POST: const dataSource
    analysisType, \* POST: const analysisType
    retries,      \* fetchUSGSData: let retries
    dataOrigin,   \* POST: where let data came from
    called,       \* POST: the analysis function that was run
    response      \* POST: the NextResponse returned

\* The state of the repeated call, of kmeans and of the Gutenberg-Richter
\* analysis, which performDeclustering and dbscan leave alone.
repeatVars == <<run, previous>>
kmeansVars == <<centroids, kmeansK, maxIterations, draws>>
edaVars == <<magnitudeCounts, cumulativeCount, grData, bValue>>
omoriVars == <<omoriData, omoriParams>>
postVars == <<nodeEnv, dataSource, analysisType, retries, dataOrigin, called, response>>
otherVars == <<omoriVars, postVars>>
auxVars == <<repeatVars, kmeansVars, edaVars, otherVars>>

vars == <<data, subType, sortedData, algorithm, pc, mainshocks, aftershocks,
          i, j, timeWindow, spaceWindow, clusters, noise, visited, queue,
          eps, minPts, result, error, auxVars>>

-----------------------------------------------------------------------------
(* Bounds and input sets *)

MaxEvents == 3

P0 == <<0, 0>>
P1 == <<2, 3>>
P2 == <<4, 6>>

Ev(t, p, m) == [time |-> t, latitude |-> p[1], longitude |-> p[2], magnitude |-> m]

\* The events a catalog is drawn from: three sites (P0-P1 and P1-P2 are
\* 0.45 degree apart, P0-P2 0.9 degree), two magnitudes, and origin times
\* that fall inside and outside every strategy's time window.
EventPool ==
    { Ev(0, P0, 20), Ev(0, P0, 50), Ev(0, P1, 20), Ev(0, P2, 50),
      Ev(600, P0, 20), Ev(600, P1, 50),
      Ev(859680, P0, 50),
      Ev(80000000, P0, 20) }

WithId(e, k) ==
    [id |-> k, time |-> e.time, latitude |-> e.latitude,
     longitude |-> e.longitude, magnitude |-> e.magnitude]

\* Every catalog of at most MaxEvents distinct objects over EventPool.
Catalogs ==
    UNION { { [k \in 1..n |-> WithId(f[k], k)] : f \in [1..n -> EventPool] }
            : n \in 0..MaxEvents }

DeclusterSubTypes ==
    {"DBSCAN", "NND Algorithm", "Gruenthal Declustering Algorithm",
     "Reasenberg Algorithm"}

\* One name that no case of the dispatch matches.
RequestSubTypes == DeclusterSubTypes \cup {"Zaliapin"}

NoResult == [kind |-> "none"]
NoError == [name |-> "none", message |-> ""]
NoBValue == [kind |-> "none"]

-----------------------------------------------------------------------------
(* Helpers *)

Range(s) == { s[k] : k \in 1..Len(s) }

Ids(s) == { s[k].id : k \in 1..Len(s) }

\* Array.prototype.includes on objects: identity.
Includes(s, e) == e.id \in Ids(s)

\* Position of the object e in the sequence s (0 when absent).
IndexOf(s, e) ==
    IF Includes(s, e) THEN CHOOSE k \in 1..Len(s) : s[k].id = e.id ELSE 0

RECURSIVE Filter(_, _)
Filter(s, keep) ==
    IF s = <<>> THEN <<>>
    ELSE IF Head(s).id \in keep THEN <<Head(s)>> \o Filter(Tail(s), keep)
    ELSE Filter(Tail(s), keep)

\* Insert e behind every element whose time is not later: with SortByTime
\* this is the stable ascending sort of Array.prototype.sort with the
\* comparator (a, b) => a.time - b.time.
RECURSIVE InsertByTime(_, _)
InsertByTime(s, e) ==
    IF s = <<>> THEN <<e>>
    ELSE IF Head(s).time - e.time <= 0 THEN <<Head(s)>> \o InsertByTime(Tail(s), e)
    ELSE <<e>> \o s

RECURSIVE SortByTime(_)
SortByTime(s) ==
    IF s = <<>> THEN <<>>
    ELSE InsertByTime(SortByTime(SubSeq(s, 1, Len(s) - 1)), s[Len(s)])

\* Fault variant of ReduceMaxMagnitude: the comparison is reversed.
RECURSIVE ReduceMinMagnitude(_, _)
ReduceMinMagnitude(s, max) ==
    IF s = <<>> THEN max
    ELSE ReduceMinMagnitude(Tail(s),
             IF Head(s).magnitude < max.magnitude THEN Head(s) ELSE max)

\* reduce((max, event) => event.magnitude > max.magnitude ? event : max, s[0])
RECURSIVE ReduceMaxMagnitude(_, _)
ReduceMaxMagnitude(s, max) ==
    IF s = <<>> THEN max
    ELSE ReduceMaxMagnitude(Tail(s),
             IF Head(s).magnitude > max.magnitude THEN Head(s) ELSE max)

MaxMagnitudeEvent(s) == ReduceMaxMagnitude(s, s[1])

\* a / b of JavaScript numbers, a and b integers.
Divide(a, b) ==
    IF b # 0 THEN [kind |-> "number", num |-> a, den |-> b]
    ELSE IF a = 0 THEN [kind |-> "NaN"]
    ELSE [kind |-> "Infinity"]

\* latDiff * latDiff + lngDiff * lngDiff, in (1/8 degree)^2.
DistanceSq(e1, e2) ==
    LET latDiff == e1.latitude - e2.latitude
        lngDiff == e1.longitude - e2.longitude
    IN  latDiff * latDiff + lngDiff * lngDiff

-----------------------------------------------------------------------------
(* Magnitude-dependent windows.  Math.pow(10, x) is tabulated for the      *)
(* magnitudes of EventPool; a time window is floor(seconds), a space       *)
(* window is floor(64 * degrees^2).                                        *)

\* Math.pow(10, M - 5.5) * 24 * 60 * 60 * 1000 ms
\*   M2.0: 27.32 s        M5.0: 27322.08 s
NndTimeWindow(m) == CASE m = 20 -> 27 [] m = 50 -> 27322

\* Math.pow(10, 0.1 * M - 0.5) degrees
\*   M2.0: 0.5012 (64 w^2 = 16.08)   M5.0: 1.0 (64 w^2 = 64)
NndSpaceWindow(m) == CASE m = 20 -> 16 [] m = 50 -> 64

\* Math.pow(10, 2.8 + 0.024 * M) * 24 * 60 * 60 * 1000 ms
\*   M2.0: 60885481.16 s   M5.0: 71864389.82 s
GruenthalTimeWindow(m) == CASE m = 20 -> 60885481 [] m = 50 -> 71864389

\* Math.pow(10, -1.77 + 0.38 * M) degrees
\*   M2.0: 0.0977 (64 w^2 = 0.61)   M5.0: 1.3490 (64 w^2 = 116.46)
GruenthalSpaceWindow(m) == CASE m = 20 -> 0 [] m = 50 -> 116

\* Math.pow(10, -1.85 + 0.4 * M) degrees
\*   M2.0: 0.0891 (64 w^2 = 0.51)   M5.0: 1.4125 (64 w^2 = 127.70)
ReasenbergSpaceWindow(m) == CASE m = 20 -> 0 [] m = 50 -> 127

SecondsPerDay == 86400

\* Omori parameters of the Reasenberg strategy: p = 1.0, c = 0.05 days
\* (= 4320 s).  With p = 1.0, Math.pow(x, p) is x and the rate
\* 1 / Math.pow(timeDiff + c, p) is the fraction
\* SecondsPerDay / (dt + OmoriCSeconds), dt in seconds.
OmoriCSeconds == 4320

RateNum(dt) == SecondsPerDay
RateDen(dt) == dt + OmoriCSeconds

\* Fault variant of RateAboveThreshold: rate >= 0.1.
RateAtOrAboveThreshold(dt) == 10 * RateNum(dt) >= RateDen(dt)

\* rate > 0.1, the denominator being positive for dt >= 0.
RateAboveThreshold(dt) == 10 * RateNum(dt) > RateDen(dt)

-----------------------------------------------------------------------------
(* performDeclustering *)

\* Initial values of the variables of the other analyses.
KmeansIdle ==
    /\ centroids = <<>>
    /\ kmeansK = 0
    /\ maxIterations = 0
    /\ draws = <<>>

EdaIdle ==
    /\ magnitudeCounts = <<>>
    /\ cumulativeCount = 0
    /\ grData = <<>>
    /\ bValue = NoBValue

NoParams == [kind |-> "none"]
NoResponse == [status |-> 0]

OmoriIdle ==
    /\ omoriData = <<>>
    /\ omoriParams = NoParams

PostIdle ==
    /\ nodeEnv = ""
    /\ dataSource = ""
    /\ analysisType = ""
    /\ retries = 0
    /\ dataOrigin = "none"
    /\ called = "none"
    /\ response = NoResponse

FirstRun ==
    /\ run = 1
    /\ previous = NoResult

Init ==
    /\ FirstRun
    /\ OmoriIdle
    /\ PostIdle
    /\ KmeansIdle
    /\ EdaIdle
    /\ data \in Catalogs
    /\ subType \in RequestSubTypes
    /\ sortedData = <<>>
    /\ algorithm = ""
    /\ pc = "start"
    /\ mainshocks = <<>>
    /\ aftershocks = <<>>
    /\ i = 0
    /\ j = 0
    /\ timeWindow = -1
    /\ spaceWindow = -1
    /\ clusters = <<>>
    /\ noise = <<>>
    /\ visited = {}
    /\ queue = <<>>
    /\ eps = 0
    /\ minPts = 0
    /\ result = NoResult
    /\ error = NoError

AlgorithmOf(st) ==
    CASE st = "DBSCAN" -> "dbscan"
      [] st = "NND Algorithm" -> "nnd"
      [] st = "Gruenthal Declustering Algorithm" -> "gruenthal"
      [] st = "Reasenberg Algorithm" -> "reasenberg"
      [] OTHER -> ""

\* Fault variant of DeclusterStart: the dispatch on subType comes before the
\* empty check.
DeclusterStartDispatchFirst ==
    /\ pc = "start"
    /\ sortedData' = SortByTime(data)
    /\ IF subType \notin DeclusterSubTypes
       THEN /\ pc' = "thrown"
            /\ error' = [name |-> "Error",
                         message |-> "Declustering error: "
                                     \o ("Unsupported declustering algorithm: " \o subType)]
            /\ UNCHANGED <<algorithm, i, eps, minPts>>
       ELSE IF Len(sortedData') = 0
       THEN /\ pc' = "thrown"
            /\ error' = [name |-> "Error",
                         message |-> "No data available for declustering analysis"]
            /\ UNCHANGED <<algorithm, i, eps, minPts>>
       ELSE /\ algorithm' = AlgorithmOf(subType)
            /\ pc' = IF algorithm' = "dbscan" THEN "scan" ELSE "outer"
            /\ i' = 1
            /\ eps' = IF algorithm' = "dbscan" THEN 4 ELSE eps
            /\ minPts' = IF algorithm' = "dbscan" THEN 3 ELSE minPts
            /\ UNCHANGED error
    /\ UNCHANGED <<auxVars, data, subType, mainshocks, aftershocks, j, timeWindow,
                   spaceWindow, clusters, noise, visited, queue, result>>

\* The sort, the empty check (thrown outside the try block) and the
\* dispatch on subType, whose default case throws inside the try block and
\* is rethrown by the catch with the prefix "Declustering error: ".
DeclusterStart ==
    /\ pc = "start"
    /\ sortedData' = SortByTime(data)
    /\ IF Len(sortedData') = 0
       THEN /\ pc' = "thrown"
            /\ error' = [name |-> "Error",
                         message |-> "No data available for declustering analysis"]
            /\ UNCHANGED <<algorithm, i, eps, minPts>>
       ELSE IF subType \notin DeclusterSubTypes
       THEN /\ pc' = "thrown"
            /\ error' = [name |-> "Error",
                         message |-> "Declustering error: "
                                     \o ("Unsupported declustering algorithm: " \o subType)]
            /\ UNCHANGED <<algorithm, i, eps, minPts>>
       ELSE /\ algorithm' = AlgorithmOf(subType)
            /\ pc' = IF algorithm' = "dbscan" THEN "scan" ELSE "outer"
            /\ i' = 1
            /\ eps' = IF algorithm' = "dbscan" THEN 4 ELSE eps
            /\ minPts' = IF algorithm' = "dbscan" THEN 3 ELSE minPts
            /\ UNCHANGED error
    /\ UNCHANGED <<auxVars, data, subType, mainshocks, aftershocks, j, timeWindow,
                   spaceWindow, clusters, noise, visited, queue, result>>

\* After an outer iteration: the next event, or the end of the forEach.
AfterOuter(k) == IF k >= Len(sortedData) THEN "check" ELSE "outer"

\* Fault variant of OuterStep: the aftershocks.includes(event) test is
\* missing, every event of the walk is pushed to mainshocks.
OuterStepNoSkip(name, tw, sw) ==
    /\ pc = "outer"
    /\ algorithm = name
    /\ mainshocks' = Append(mainshocks, sortedData[i])
    /\ timeWindow' = tw
    /\ spaceWindow' = sw
    /\ IF i < Len(sortedData)
       THEN /\ pc' = "inner"
            /\ j' = i + 1
            /\ i' = i
       ELSE /\ pc' = AfterOuter(i)
            /\ i' = i + 1
            /\ j' = j
    /\ UNCHANGED <<auxVars, data, subType, sortedData, algorithm, aftershocks, clusters,
                   noise, visited, queue, eps, minPts, result, error>>

\* Fault variant of OuterStep: the inner walk is events.slice(i), it starts
\* at the candidate mainshock itself.
OuterStepSliceI(name, tw, sw) ==
    /\ pc = "outer"
    /\ algorithm = name
    /\ LET event == sortedData[i] IN
       IF Includes(aftershocks, event)
       THEN /\ i' = i + 1
            /\ pc' = AfterOuter(i)
            /\ UNCHANGED <<mainshocks, j, timeWindow, spaceWindow>>
       ELSE /\ mainshocks' = Append(mainshocks, event)
            /\ timeWindow' = tw
            /\ spaceWindow' = sw
            /\ pc' = "inner"
            /\ j' = i
            /\ i' = i
    /\ UNCHANGED <<auxVars, data, subType, sortedData, algorithm, aftershocks, clusters,
                   noise, visited, queue, eps, minPts, result, error>>

\* One iteration of the outer forEach of a window strategy: skip an event
\* already in aftershocks, otherwise push it to mainshocks and open its
\* windows tw / sw over events.slice(i + 1).
OuterStep(name, tw, sw) ==
    /\ pc = "outer"
    /\ algorithm = name
    /\ LET event == sortedData[i] IN
       IF Includes(aftershocks, event)
       THEN /\ i' = i + 1
            /\ pc' = AfterOuter(i)
            /\ UNCHANGED <<mainshocks, j, timeWindow, spaceWindow>>
       ELSE /\ mainshocks' = Append(mainshocks, event)
            /\ timeWindow' = tw
            /\ spaceWindow' = sw
            /\ IF i < Len(sortedData)
               THEN /\ pc' = "inner"
                    /\ j' = i + 1
                    /\ i' = i
               ELSE /\ pc' = AfterOuter(i)
                    /\ i' = i + 1
                    /\ j' = j
    /\ UNCHANGED <<auxVars, data, subType, sortedData, algorithm, aftershocks, clusters,
                   noise, visited, queue, eps, minPts, result, error>>

\* Fault variant of InnerStep: the aftershocks.includes(laterEvent) test is
\* missing.
InnerStepNoIncludes(name, admitted) ==
    /\ pc = "inner"
    /\ algorithm = name
    /\ aftershocks' = IF admitted THEN Append(aftershocks, sortedData[j])
                      ELSE aftershocks
    /\ IF j < Len(sortedData)
       THEN /\ j' = j + 1
            /\ UNCHANGED <<i, pc>>
       ELSE /\ i' = i + 1
            /\ pc' = AfterOuter(i)
            /\ j' = j
    /\ UNCHANGED <<auxVars, data, subType, sortedData, algorithm, mainshocks, timeWindow,
                   spaceWindow, clusters, noise, visited, queue, eps, minPts,
                   result, error>>

\* One iteration of the inner forEach: laterEvent is pushed to aftershocks
\* when it is not there yet and admitted is true.
InnerStep(name, admitted) ==
    /\ pc = "inner"
    /\ algorithm = name
    /\ LET laterEvent == sortedData[j] IN
       aftershocks' = IF ~Includes(aftershocks, laterEvent) /\ admitted
                      THEN Append(aftershocks, laterEvent)
                      ELSE aftershocks
    /\ IF j < Len(sortedData)
       THEN /\ j' = j + 1
            /\ UNCHANGED <<i, pc>>
       ELSE /\ i' = i + 1
            /\ pc' = AfterOuter(i)
            /\ j' = j
    /\ UNCHANGED <<auxVars, data, subType, sortedData, algorithm, mainshocks, timeWindow,
                   spaceWindow, clusters, noise, visited, queue, eps, minPts,
                   result, error>>

\* if (timeDiff > timeWindow) return; ... if (distance <= spaceWindow) push
NndAdmits(event, laterEvent, tw, sw) ==
    LET timeDiff == laterEvent.time - event.time IN
    /\ ~(timeDiff > tw)
    /\ DistanceSq(laterEvent, event) <= sw

NndOuter ==
    OuterStep("nnd", NndTimeWindow(sortedData[i].magnitude),
                     NndSpaceWindow(sortedData[i].magnitude))

\* Fault variant of NndInner: the windows are taken from the later event's
\* magnitude.
NndInnerLaterMagnitude ==
    InnerStep("nnd", NndAdmits(sortedData[i], sortedData[j],
                               NndTimeWindow(sortedData[j].magnitude),
                               NndSpaceWindow(sortedData[j].magnitude)))

NndInner ==
    InnerStep("nnd", NndAdmits(sortedData[i], sortedData[j], timeWindow, spaceWindow))

GruenthalAdmits(event, laterEvent, tw, sw) ==
    LET timeDiff == laterEvent.time - event.time IN
    /\ ~(timeDiff > tw)
    /\ DistanceSq(laterEvent, event) <= sw

GruenthalOuter ==
    OuterStep("gruenthal", GruenthalTimeWindow(sortedData[i].magnitude),
                           GruenthalSpaceWindow(sortedData[i].magnitude))

GruenthalInner ==
    InnerStep("gruenthal",
              GruenthalAdmits(sortedData[i], sortedData[j], timeWindow, spaceWindow))

\* if (distance <= spaceWindow) { rate = ...; if (rate > 0.1) push }
ReasenbergAdmits(event, laterEvent, sw) ==
    LET timeDiff == laterEvent.time - event.time IN
    /\ DistanceSq(laterEvent, event) <= sw
    /\ RateAboveThreshold(timeDiff)

\* The Reasenberg strategy has no timeWindow constant.
ReasenbergOuter ==
    OuterStep("reasenberg", timeWindow,
              ReasenbergSpaceWindow(sortedData[i].magnitude))

ReasenbergInner ==
    InnerStep("reasenberg", ReasenbergAdmits(sortedData[i], sortedData[j], spaceWindow))

-----------------------------------------------------------------------------
(* decluster case "dbscan" *)

\* const distance = (e1, e2) => Math.sqrt(latDiff^2 + lngDiff^2), squared.
DeclusterDistanceSq(e1, e2) ==
    LET latDiff == e1.latitude - e2.latitude
        lngDiff == e1.longitude - e2.longitude
    IN  latDiff * latDiff + lngDiff * lngDiff

\* events.filter((e) => distance(event, e) <= eps): event itself included,
\* in the order of events.
DeclusterGetNeighbors(event, events) ==
    Filter(events, { e.id : e \in { x \in Range(events) :
                                      DeclusterDistanceSq(event, x) <= eps * eps } })

\* Where the run goes once the event at index k of the forEach is done:
\* the next event, or clusters.forEach over cs, or the fallback check.
AfterScan(k, cs) ==
    IF k < Len(sortedData) THEN "scan"
    ELSE IF Len(cs) > 0 THEN "select" ELSE "check"

\* One iteration of events.forEach: a visited event is skipped, an event
\* with fewer than minPts neighbours is pushed to mainshocks, any other
\* event opens a new cluster whose queue is its neighbourhood.
DeclusterDbscanVisit ==
    /\ pc = "scan"
    /\ LET event == sortedData[i]
           neighbors == DeclusterGetNeighbors(event, sortedData)
       IN
       IF event.id \in visited
       THEN /\ i' = IF i < Len(sortedData) THEN i + 1 ELSE 1
            /\ pc' = AfterScan(i, clusters)
            /\ UNCHANGED <<visited, mainshocks, clusters, queue>>
       ELSE /\ visited' = visited \cup {event.id}
            /\ IF Len(neighbors) < minPts
               THEN /\ mainshocks' = Append(mainshocks, event)
                    /\ i' = IF i < Len(sortedData) THEN i + 1 ELSE 1
                    /\ pc' = AfterScan(i, clusters)
                    /\ UNCHANGED <<clusters, queue>>
               ELSE /\ clusters' = Append(clusters, <<event>>)
                    /\ queue' = neighbors
                    /\ pc' = "expand"
                    /\ UNCHANGED <<mainshocks, i>>
    /\ UNCHANGED <<auxVars, data, subType, sortedData, algorithm, aftershocks, j,
                   timeWindow, spaceWindow, noise, eps, minPts, result, error>>

\* One iteration of while (queue.length > 0): shift the head; a visited
\* head is dropped; otherwise it is marked visited, its unvisited
\* neighbours are queued when it has at least minPts neighbours, and it
\* joins the cluster under construction (the last one of clusters).
DeclusterDbscanExpand ==
    /\ pc = "expand"
    /\ LET current == Head(queue)
           rest == Tail(queue)
           currentNeighbors == DeclusterGetNeighbors(current, sortedData)
       IN
       IF current.id \in visited
       THEN /\ queue' = rest
            /\ UNCHANGED <<visited, clusters>>
       ELSE /\ visited' = visited \cup {current.id}
            /\ queue' = IF Len(currentNeighbors) >= minPts
                        THEN rest \o Filter(currentNeighbors,
                                            Ids(currentNeighbors) \ visited')
                        ELSE rest
            /\ clusters' = [clusters EXCEPT ![Len(clusters)] = Append(@, current)]
    /\ IF Len(queue') > 0
       THEN UNCHANGED <<pc, i>>
       ELSE /\ pc' = AfterScan(i, clusters')
            /\ i' = IF i < Len(sortedData) THEN i + 1 ELSE 1
    /\ UNCHANGED <<auxVars, data, subType, sortedData, algorithm, mainshocks, aftershocks,
                   j, timeWindow, spaceWindow, noise, eps, minPts, result, error>>

\* Fault variant of DeclusterDbscanSelect: any member of largest magnitude
\* may be taken as the mainshock, not the first one of the cluster.
DeclusterDbscanSelectAnyMax ==
    /\ pc = "select"
    /\ LET cluster == clusters[i]
           largest == ReduceMaxMagnitude(cluster, cluster[1]).magnitude
       IN
       \E mainshock \in { e \in Range(cluster) : e.magnitude = largest } :
           /\ mainshocks' = Append(mainshocks, mainshock)
           /\ aftershocks' = aftershocks \o Filter(cluster, Ids(cluster) \ {mainshock.id})
    /\ IF i < Len(clusters)
       THEN /\ i' = i + 1
            /\ pc' = "select"
       ELSE /\ i' = i
            /\ pc' = "check"
    /\ UNCHANGED <<auxVars, data, subType, sortedData, algorithm, j, timeWindow,
                   spaceWindow, clusters, noise, visited, queue, eps, minPts,
                   result, error>>

\* One iteration of clusters.forEach: the first member of largest magnitude
\* is pushed to mainshocks, every other member to aftershocks.
DeclusterDbscanSelect ==
    /\ pc = "select"
    /\ LET cluster == clusters[i]
           mainshock == ReduceMaxMagnitude(cluster, cluster[1])
       IN
       /\ mainshocks' = Append(mainshocks, mainshock)
       /\ aftershocks' = aftershocks \o Filter(cluster, Ids(cluster) \ {mainshock.id})
    /\ IF i < Len(clusters)
       THEN /\ i' = i + 1
            /\ pc' = "select"
       ELSE /\ i' = i
            /\ pc' = "check"
    /\ UNCHANGED <<auxVars, data, subType, sortedData, algorithm, j, timeWindow,
                   spaceWindow, clusters, noise, visited, queue, eps, minPts,
                   result, error>>

-----------------------------------------------------------------------------
(* performDeclustering: result *)

\* The values Math.random() takes, in hundredths.
RandomSet == {0, 50}

\* (last.time - first.time) / ((length - 1) * 24 * 60 * 60 * 1000) days when
\* the list has more than one event, else 0.
MeanTimeGap(events) ==
    IF Len(events) > 1
    THEN Divide(events[Len(events)].time - events[1].time,
                (Len(events) - 1) * SecondsPerDay)
    ELSE [kind |-> "number", num |-> 0, den |-> 1]

\* const beforeStats, bValue in thousandths: 0.9 + Math.random() * 0.2.
BeforeStats(sorted, main, after, random) ==
    [totalEvents |-> Len(sorted),
     mainshocks |-> Len(main),
     aftershocks |-> Len(after),
     bValue |-> 900 + 2 * random,
     meanTimeGap |-> MeanTimeGap(sorted)]

\* const afterStats, bValue in thousandths: 1.0 + Math.random() * 0.2.
AfterStats(main, random) ==
    [totalEvents |-> Len(main),
     mainshocks |-> Len(main),
     aftershocks |-> 0,
     bValue |-> 1000 + 2 * random,
     meanTimeGap |-> MeanTimeGap(main)]

\* Fault variant of DeclusterFinish: the two lists are swapped in the
\* returned record.
DeclusterFinishSwapped ==
    /\ pc = "check"
    /\ mainshocks' = IF Len(mainshocks) = 0 /\ Len(sortedData) > 0
                     THEN Append(mainshocks, MaxMagnitudeEvent(sortedData))
                     ELSE mainshocks
    /\ \E before, after \in RandomSet :
          result' = [kind |-> "declustering",
                     algorithm |-> algorithm,
                     totalEvents |-> Len(sortedData),
                     beforeDeclustering |->
                         BeforeStats(sortedData, mainshocks', aftershocks, before),
                     afterDeclustering |-> AfterStats(mainshocks', after),
                     mainshocks |-> aftershocks,
                     aftershocks |-> mainshocks']
    /\ pc' = "done"
    /\ UNCHANGED <<auxVars, data, subType, sortedData, algorithm, aftershocks, i, j,
                   timeWindow, spaceWindow, clusters, noise, visited, queue,
                   eps, minPts, error>>

\* The mainshock fallback, beforeStats and afterStats with their two draws
\* of Math.random, and the assembly of the returned record (the validity
\* metrics and the histograms are left out of the record here).
DeclusterFinish ==
    /\ pc = "check"
    /\ mainshocks' = IF Len(mainshocks) = 0 /\ Len(sortedData) > 0
                     THEN Append(mainshocks, MaxMagnitudeEvent(sortedData))
                     ELSE mainshocks
    /\ \E before, after \in RandomSet :
          result' = [kind |-> "declustering",
                     algorithm |-> algorithm,
                     totalEvents |-> Len(sortedData),
                     beforeDeclustering |->
                         BeforeStats(sortedData, mainshocks', aftershocks, before),
                     afterDeclustering |-> AfterStats(mainshocks', after),
                     mainshocks |-> mainshocks',
                     aftershocks |-> aftershocks]
    /\ pc' = "done"
    /\ UNCHANGED <<auxVars, data, subType, sortedData, algorithm, aftershocks, i, j,
                   timeWindow, spaceWindow, clusters, noise, visited, queue,
                   eps, minPts, error>>

Next ==
    \/ DeclusterStart
    \/ NndOuter
    \/ NndInner
    \/ GruenthalOuter
    \/ GruenthalInner
    \/ ReasenbergOuter
    \/ ReasenbergInner
    \/ DeclusterDbscanVisit
    \/ DeclusterDbscanExpand
    \/ DeclusterDbscanSelect
    \/ DeclusterFinish

Spec == Init /\ [][Next]_vars

-----------------------------------------------------------------------------
(* performClustering.dbscan(points, eps, minPts); points is data, in the   *)
(* order given (performClustering does not sort).                          *)

\* eps in 1/8 degree: 4 is the 0.5 degree of the call dbscan(data, 0.5, 3).
EpsSet == {4, 8}
MinPtsSet == {1, 2, 3}

InitDbscan ==
    /\ FirstRun
    /\ OmoriIdle
    /\ PostIdle
    /\ KmeansIdle
    /\ EdaIdle
    /\ data \in Catalogs
    /\ subType = "DBSCAN"
    /\ eps \in EpsSet
    /\ minPts \in MinPtsSet
    /\ sortedData = <<>>
    /\ algorithm = "dbscan"
    /\ pc = "cscan"
    /\ mainshocks = <<>>
    /\ aftershocks = <<>>
    /\ i = 1
    /\ j = 0
    /\ timeWindow = -1
    /\ spaceWindow = -1
    /\ clusters = <<>>
    /\ noise = <<>>
    /\ visited = {}
    /\ queue = <<>>
    /\ result = NoResult
    /\ error = NoError

\* const distance = (p1, p2) => Math.sqrt(latDiff^2 + lngDiff^2), squared.
ClusterDistanceSq(p1, p2) ==
    LET latDiff == p1.latitude - p2.latitude
        lngDiff == p1.longitude - p2.longitude
    IN  latDiff * latDiff + lngDiff * lngDiff

\* points.filter((p) => distance(point, p) <= eps)
GetNeighbors(point, points) ==
    Filter(points, { e.id : e \in { x \in Range(points) :
                                      ClusterDistanceSq(point, x) <= eps * eps } })

\* Fault variant of DbscanVisit: a point with exactly minPts neighbours is
\* pushed to noise.
DbscanVisitNoiseAtMinPts ==
    /\ pc = "cscan"
    /\ i <= Len(data)
    /\ LET point == data[i]
           neighbors == GetNeighbors(point, data)
       IN
       IF point.id \in visited
       THEN /\ i' = i + 1
            /\ UNCHANGED <<pc, visited, noise, clusters, queue>>
       ELSE /\ visited' = visited \cup {point.id}
            /\ IF Len(neighbors) <= minPts
               THEN /\ noise' = Append(noise, point)
                    /\ i' = i + 1
                    /\ UNCHANGED <<pc, clusters, queue>>
               ELSE /\ clusters' = Append(clusters, <<point>>)
                    /\ queue' = neighbors
                    /\ pc' = "cexpand"
                    /\ UNCHANGED <<noise, i>>
    /\ UNCHANGED <<auxVars, data, subType, sortedData, algorithm, mainshocks, aftershocks,
                   j, timeWindow, spaceWindow, eps, minPts, result, error>>

\* One iteration of points.forEach.
DbscanVisit ==
    /\ pc = "cscan"
    /\ i <= Len(data)
    /\ LET point == data[i]
           neighbors == GetNeighbors(point, data)
       IN
       IF point.id \in visited
       THEN /\ i' = i + 1
            /\ UNCHANGED <<pc, visited, noise, clusters, queue>>
       ELSE /\ visited' = visited \cup {point.id}
            /\ IF Len(neighbors) < minPts
               THEN /\ noise' = Append(noise, point)
                    /\ i' = i + 1
                    /\ UNCHANGED <<pc, clusters, queue>>
               ELSE /\ clusters' = Append(clusters, <<point>>)
                    /\ queue' = neighbors
                    /\ pc' = "cexpand"
                    /\ UNCHANGED <<noise, i>>
    /\ UNCHANGED <<auxVars, data, subType, sortedData, algorithm, mainshocks, aftershocks,
                   j, timeWindow, spaceWindow, eps, minPts, result, error>>

\* Fault variant of DbscanExpand: the visited.has(current) test is missing.
DbscanExpandNoVisitedTest ==
    /\ pc = "cexpand"
    /\ LET current == Head(queue)
           rest == Tail(queue)
           currentNeighbors == GetNeighbors(current, data)
       IN
       /\ visited' = visited \cup {current.id}
       /\ queue' = IF Len(currentNeighbors) >= minPts
                   THEN rest \o Filter(currentNeighbors,
                                       Ids(currentNeighbors) \ visited')
                   ELSE rest
       /\ clusters' = [clusters EXCEPT ![Len(clusters)] = Append(@, current)]
    /\ IF Len(queue') > 0
       THEN UNCHANGED <<pc, i>>
       ELSE /\ pc' = "cscan"
            /\ i' = i + 1
    /\ UNCHANGED <<auxVars, data, subType, sortedData, algorithm, mainshocks, aftershocks,
                   j, timeWindow, spaceWindow, noise, eps, minPts, result, error>>

\* One iteration of while (queue.length > 0).
DbscanExpand ==
    /\ pc = "cexpand"
    /\ LET current == Head(queue)
           rest == Tail(queue)
           currentNeighbors == GetNeighbors(current, data)
       IN
       IF current.id \in visited
       THEN /\ queue' = rest
            /\ UNCHANGED <<visited, clusters>>
       ELSE /\ visited' = visited \cup {current.id}
            /\ queue' = IF Len(currentNeighbors) >= minPts
                        THEN rest \o Filter(currentNeighbors,
                                            Ids(currentNeighbors) \ visited')
                        ELSE rest
            /\ clusters' = [clusters EXCEPT ![Len(clusters)] = Append(@, current)]
    /\ IF Len(queue') > 0
       THEN UNCHANGED <<pc, i>>
       ELSE /\ pc' = "cscan"
            /\ i' = i + 1
    /\ UNCHANGED <<auxVars, data, subType, sortedData, algorithm, mainshocks, aftershocks,
                   j, timeWindow, spaceWindow, noise, eps, minPts, result, error>>

\* return { clusters, noise }
DbscanReturn ==
    /\ pc = "cscan"
    /\ i > Len(data)
    /\ result' = [kind |-> "dbscan", clusters |-> clusters, noise |-> noise]
    /\ pc' = "cdone"
    /\ UNCHANGED <<auxVars, data, subType, sortedData, algorithm, mainshocks, aftershocks,
                   i, j, timeWindow, spaceWindow, clusters, noise, visited,
                   queue, eps, minPts, error>>

NextDbscan ==
    \/ DbscanVisit
    \/ DbscanExpand
    \/ DbscanReturn

SpecDbscan == InitDbscan /\ [][NextDbscan]_vars

-----------------------------------------------------------------------------
(* The same call made a second time on the same catalog: the first call's  *)
(* returned record is kept in previous and every local of the call starts  *)
(* afresh.                                                                 *)

\* performDeclustering(data, subType) called again with the same arguments.
DeclusterAgain ==
    /\ run = 1
    /\ pc = "done"
    /\ previous' = result
    /\ run' = 2
    /\ sortedData' = <<>>
    /\ algorithm' = ""
    /\ pc' = "start"
    /\ mainshocks' = <<>>
    /\ aftershocks' = <<>>
    /\ i' = 0
    /\ j' = 0
    /\ timeWindow' = -1
    /\ spaceWindow' = -1
    /\ clusters' = <<>>
    /\ noise' = <<>>
    /\ visited' = {}
    /\ queue' = <<>>
    /\ eps' = 0
    /\ minPts' = 0
    /\ result' = NoResult
    /\ UNCHANGED <<kmeansVars, edaVars, otherVars, data, subType, error>>

\* dbscan(points, eps, minPts) called again with the same arguments.
DbscanAgain ==
    /\ run = 1
    /\ pc = "cdone"
    /\ previous' = result
    /\ run' = 2
    /\ pc' = "cscan"
    /\ i' = 1
    /\ clusters' = <<>>
    /\ noise' = <<>>
    /\ visited' = {}
    /\ queue' = <<>>
    /\ result' = NoResult
    /\ UNCHANGED <<kmeansVars, edaVars, otherVars, data, subType, sortedData,
                   algorithm,
                   mainshocks, aftershocks, j, timeWindow, spaceWindow, eps,
                   minPts, error>>

InitRepeat == Init \/ InitDbscan

NextRepeat ==
    \/ Next
    \/ NextDbscan
    \/ DeclusterAgain
    \/ DbscanAgain

SpecRepeat == InitRepeat /\ [][NextRepeat]_vars

-----------------------------------------------------------------------------
(* Properties of performDeclustering (Spec)                                *)

WindowAlgorithms == {"nnd", "gruenthal", "reasenberg"}

\* The events appended to aftershocks by the step.
NewAftershocks ==
    { aftershocks'[k] : k \in (Len(aftershocks) + 1)..Len(aftershocks') }

\* C1: when a declustering run of any strategy returns, the mainshocks and
\* the aftershocks of the result are disjoint and together hold every event
\* of the input catalog exactly once, and nothing else.
C1_PartitionCoversCatalog ==
    pc = "done" =>
        LET all == result.mainshocks \o result.aftershocks IN
        /\ Len(all) = Len(data)
        /\ \A k \in 1..Len(data) :
               Cardinality({ n \in 1..Len(all) : all[n].id = k }) = 1
        /\ \A n \in 1..Len(all) : all[n] = data[all[n].id]
        /\ Ids(result.mainshocks) \cap Ids(result.aftershocks) = {}

\* A run that returned several mainshocks and at least one aftershock.
C1_Witness ==
    /\ pc = "done"
    /\ Len(result.mainshocks) >= 2
    /\ Len(result.aftershocks) >= 1

\* C2: an event of aftershocks stays in aftershocks and is never added to
\* mainshocks by any later step; an outer iteration of a window strategy
\* that reaches such an event moves on to the next event without pushing
\* anything and without opening a window.
C2_AftershockNeverMainshock ==
    [][ /\ \A e \in Range(aftershocks) :
               Includes(aftershocks', e) /\ ~Includes(mainshocks', e)
        /\ (pc = "outer" /\ Includes(aftershocks, sortedData[i])) =>
               /\ mainshocks' = mainshocks
               /\ aftershocks' = aftershocks
               /\ i' = i + 1
               /\ pc' # "inner"
               /\ UNCHANGED <<j, timeWindow, spaceWindow>>
      ]_vars

\* The outer walk of a window strategy has passed an aftershock.
C2_Witness ==
    /\ algorithm \in WindowAlgorithms
    /\ pc \in {"outer", "inner", "check", "done"}
    /\ \E k \in 1..Len(sortedData) : k < i /\ Includes(aftershocks, sortedData[k])

\* C3: the record returned for a non-empty catalog has at least one
\* mainshock, and a strategy output without mainshocks is completed with
\* the (first) event of highest magnitude alone.
C3_AtLeastOneMainshock ==
    [][ pc = "check" =>
          /\ Len(result'.mainshocks) >= 1
          /\ Len(mainshocks) = 0 =>
                 /\ Len(result'.mainshocks) = 1
                 /\ \A e \in Range(sortedData) :
                        e.magnitude <= result'.mainshocks[1].magnitude
      ]_vars

\* A run that returned, with an all-mainshocks and with a mixed outcome.
C3_Witness ==
    /\ pc = "done"
    /\ Len(data) >= 2
    /\ Len(result.mainshocks) = 1

\* The ids of the events of the catalog that are in no cluster.
DeclusterNoiseIds ==
    Ids(sortedData) \ UNION { Ids(clusters[c]) : c \in 1..Len(clusters) }

\* All events at one site.
CoLocated(s) ==
    \A a, b \in Range(s) : a.latitude = b.latitude /\ a.longitude = b.longitude

\* C6: in the result of DBSCAN declustering every noise event is a
\* mainshock; each cluster has exactly one mainshock, of the largest
\* magnitude of the cluster, its other members being aftershocks; the
\* mainshocks number noise count plus cluster count; without clusters there
\* is no aftershock; a catalog of at least minPts co-located events with a
\* unique largest magnitude has that event as its only mainshock.
C6_DbscanDeclustering ==
    (pc = "done" /\ algorithm = "dbscan") =>
        /\ DeclusterNoiseIds \subseteq Ids(result.mainshocks)
        /\ \A c \in 1..Len(clusters) :
               LET ms == { e \in Range(clusters[c]) : Includes(result.mainshocks, e) } IN
               /\ Cardinality(ms) = 1
               /\ \A m \in ms : \A e \in Range(clusters[c]) : e.magnitude <= m.magnitude
               /\ \A e \in Range(clusters[c]) \ ms : Includes(result.aftershocks, e)
        /\ Len(result.mainshocks) = Cardinality(DeclusterNoiseIds) + Len(clusters)
        /\ Len(clusters) = 0 =>
               /\ Len(result.aftershocks) = 0
               /\ Len(result.mainshocks) = Len(sortedData)
        /\ \A top \in Range(sortedData) :
               ( /\ CoLocated(sortedData)
                 /\ Len(sortedData) >= minPts
                 /\ \A e \in Range(sortedData) \ {top} : e.magnitude < top.magnitude )
               => /\ result.mainshocks = <<top>>
                  /\ Ids(result.aftershocks) = Ids(sortedData) \ {top.id}

\* A DBSCAN run over co-located events whose largest one is not the first.
C6_Witness ==
    /\ pc = "done"
    /\ algorithm = "dbscan"
    /\ Len(clusters) = 1
    /\ Len(result.aftershocks) = 2
    /\ result.mainshocks[1].magnitude > sortedData[1].magnitude

\* An event the walk reaches is pushed to mainshocks unless it is already
\* an aftershock.
MarkedMainshock ==
    (pc \in {"outer", "scan"} /\ ~Includes(aftershocks, sortedData[i]))
        => Includes(mainshocks', sortedData[i])

\* Every event a step adds to aftershocks sits later in the sorted catalog
\* than the mainshock that claims it, the latest one of mainshocks.
ClaimedLater ==
    \A a \in NewAftershocks :
        IndexOf(sortedData, mainshocks'[Len(mainshocks')]) < IndexOf(sortedData, a)

EarliestIsMainshock == Includes(result.mainshocks, sortedData[1])

\* C7 as stated, for all four strategies: the walk marks every event that
\* is not yet an aftershock as mainshock, aftershocks are later than their
\* mainshock, and the earliest event is a mainshock.
C7_AllStrategiesShape ==
    /\ [][MarkedMainshock /\ ClaimedLater]_vars
    /\ [](pc = "done" => EarliestIsMainshock)

\* The walk of a window strategy: the outer index only advances, by one,
\* and the inner index runs from i + 1 upwards.
AscendingWalk ==
    /\ pc = "outer" => (i' = i + 1 \/ (i' = i /\ pc' = "inner" /\ j' = i + 1))
    /\ pc = "inner" => ((i' = i /\ j' = j + 1) \/ (i' = i + 1 /\ j = Len(sortedData)))

WindowShapeStep ==
    algorithm \in WindowAlgorithms => (MarkedMainshock /\ ClaimedLater /\ AscendingWalk)

\* C7, for the three window strategies (NND, Gruenthal, Reasenberg): the
\* sorted catalog is walked once in ascending order, an event not yet in
\* aftershocks is pushed to mainshocks, only later events become its
\* aftershocks, and the earliest event is a mainshock.
C7_WindowStrategiesShape ==
    /\ [][WindowShapeStep]_vars
    /\ [](pc = "done" /\ algorithm \in WindowAlgorithms => EarliestIsMainshock)

\* A window run in which a mainshock other than the first claimed an
\* aftershock.
C7_Witness ==
    /\ pc = "done"
    /\ algorithm \in WindowAlgorithms
    /\ Len(result.aftershocks) >= 1
    /\ IndexOf(sortedData, result.aftershocks[1]) = 3
    /\ Len(result.mainshocks) = 2

\* C8: in an inner iteration of NND or Gruenthal a later event that is not
\* yet an aftershock becomes one exactly when its time difference is at
\* most the time window and its distance at most the space window of the
\* candidate mainshock's magnitude; an event already in aftershocks is left.
C8_WindowAdmission ==
    [][ (pc = "inner" /\ algorithm \in {"nnd", "gruenthal"}) =>
          LET event == sortedData[i]
              laterEvent == sortedData[j]
              M == event.magnitude
              tw == IF algorithm = "nnd" THEN NndTimeWindow(M) ELSE GruenthalTimeWindow(M)
              sw == IF algorithm = "nnd" THEN NndSpaceWindow(M) ELSE GruenthalSpaceWindow(M)
          IN
          IF Includes(aftershocks, laterEvent)
          THEN aftershocks' = aftershocks
          ELSE Includes(aftershocks', laterEvent)
                 <=> ( /\ laterEvent.time - event.time <= tw
                       /\ DistanceSq(laterEvent, event) <= sw )
      ]_vars

\* An NND or Gruenthal run in which a mainshock of one magnitude admitted a
\* later event of the other magnitude and another event was refused.
C8_Witness ==
    /\ pc = "done"
    /\ algorithm \in {"nnd", "gruenthal"}
    /\ Len(result.mainshocks) >= 2
    /\ Len(result.aftershocks) >= 1
    /\ result.aftershocks[1].magnitude # sortedData[1].magnitude

\* C9: in an inner iteration of Reasenberg a later event that is not yet an
\* aftershock becomes one exactly when its distance is within the space
\* window of the mainshock's magnitude and 1 / (dt_days + 0.05)^1 > 0.1,
\* that is 10 * 86400 > dt_seconds + 4320.
C9_ReasenbergAdmission ==
    [][ (pc = "inner" /\ algorithm = "reasenberg") =>
          LET event == sortedData[i]
              laterEvent == sortedData[j]
              dt == laterEvent.time - event.time
          IN
          IF Includes(aftershocks, laterEvent)
          THEN aftershocks' = aftershocks
          ELSE Includes(aftershocks', laterEvent)
                 <=> ( /\ DistanceSq(laterEvent, event)
                            <= ReasenbergSpaceWindow(event.magnitude)
                       /\ 10 * 86400 > dt + 4320 )
      ]_vars

\* A Reasenberg run with an admitted event and with an event inside the
\* space window that the rate test refused.
C9_Witness ==
    /\ pc = "done"
    /\ algorithm = "reasenberg"
    /\ Len(result.aftershocks) >= 1
    /\ \E a, b \in 1..Len(sortedData) :
          /\ a < b
          /\ Includes(result.mainshocks, sortedData[a])
          /\ Includes(result.mainshocks, sortedData[b])
          /\ DistanceSq(sortedData[a], sortedData[b])
                <= ReasenbergSpaceWindow(sortedData[a].magnitude)

EmptyCatalogMessage == "No data available for declustering analysis"

UnsupportedMessage(name) ==
    "Declustering error: " \o ("Unsupported declustering algorithm: " \o name)

-----------------------------------------------------------------------------
(* Properties of performClustering.dbscan (SpecDbscan)                     *)

\* C4: when dbscan returns, every input event is in exactly one place: once
\* in one cluster, or once in noise.
C4_DbscanPartition ==
    pc = "cdone" =>
        \A e \in Range(data) :
            Cardinality({ <<c, n>> \in (1..Len(result.clusters)) \X (1..Len(data) + 1) :
                            /\ n <= Len(result.clusters[c])
                            /\ result.clusters[c][n].id = e.id })
            + Cardinality({ n \in 1..Len(result.noise) : result.noise[n].id = e.id })
            = 1

\* A return with a cluster and a noise event.
C4_Witness ==
    /\ pc = "cdone"
    /\ Len(result.clusters) >= 1
    /\ Len(result.noise) >= 1

\* C5: no cluster of the returned clustering has fewer than minPts members.
C5_ClusterAtLeastMinPts ==
    pc = "cdone" =>
        \A c \in 1..Len(result.clusters) : Len(result.clusters[c]) >= minPts

\* C11: for a catalog of exactly one event every strategy returns that
\* event as the only mainshock and no aftershock.
C11_SingleEvent ==
    (pc = "done" /\ Len(data) = 1) =>
        /\ result.mainshocks = <<data[1]>>
        /\ result.aftershocks = <<>>

\* A returned run on a catalog of one event.
C11_Witness ==
    /\ pc = "done"
    /\ Len(data) = 1
    /\ result.totalEvents = 1

-----------------------------------------------------------------------------
(* Properties of a repeated call (SpecRepeat)                              *)

-----------------------------------------------------------------------------
(* performClustering: kmeans(points, k, maxIterations) and fuzzyKmeans,    *)
(* with the dispatch on subType and processedClusters.                     *)
(*                                                                         *)
(* Units.  A k-means catalog gives latitude and longitude in 1/40000       *)
(* degree, so that the 0.0001 degree of the centroid test is 4 units and   *)
(* a centroid can move by less than it.  A centroid is the pair of         *)
(* rationals latN / den, lngN / den: the copy of a point has den = 1, an   *)
(* updated centroid has the coordinate sums of its cluster over the        *)
(* cluster's length.                                                       *)

\* 0.0001 degree, in 1/40000 degree.
CentroidEpsilon == 4

K0 == <<0, 0>>
K1 == <<3, 2>>
K2 == <<100, 60>>

\* Two sites 0.00009 degree apart and one far from both.
KmeansPool == { Ev(0, K0, 20), Ev(600, K1, 50), Ev(1200, K2, 20) }

\* Every non-empty catalog of at most MaxEvents distinct objects over
\* KmeansPool (POST refuses an empty catalog).
KmeansCatalogs ==
    UNION { { [x \in 1..n |-> WithId(f[x], x)] : f \in [1..n -> KmeansPool] }
            : n \in 1..MaxEvents }

\* 4 is the k of the calls kmeans(data, 4) and fuzzyKmeans(data, 4).
KSet == {2, 4}

\* 10 is the default of the parameter.
MaxIterationsSet == {1, 2, 10}

ClusterSubTypes == {"K-means", "Fuzzy C-means"}

AlgorithmNameOf(st) ==
    CASE st = "K-means" -> "kmeans"
      [] st = "Fuzzy C-means" -> "fuzzy"
      [] OTHER -> ""

InitKmeans ==
    /\ FirstRun
    /\ OmoriIdle
    /\ PostIdle
    /\ EdaIdle
    /\ data \in KmeansCatalogs
    /\ subType \in ClusterSubTypes
    /\ kmeansK \in KSet
    /\ maxIterations \in MaxIterationsSet
    /\ centroids = <<>>
    /\ draws = <<>>
    /\ sortedData = <<>>
    /\ algorithm = ""
    /\ pc = "kstart"
    /\ mainshocks = <<>>
    /\ aftershocks = <<>>
    /\ i = 0
    /\ j = 0
    /\ timeWindow = -1
    /\ spaceWindow = -1
    /\ clusters = <<>>
    /\ noise = <<>>
    /\ visited = {}
    /\ queue = <<>>
    /\ eps = 0
    /\ minPts = 0
    /\ result = NoResult
    /\ error = NoError

\* The variables kmeans and processedClusters leave alone.
kmeansUnused ==
    <<sortedData, mainshocks, aftershocks, j, timeWindow, spaceWindow, noise,
      visited, queue, eps, minPts, error, repeatVars, edaVars, otherVars>>

Abs(x) == IF x < 0 THEN -x ELSE x

\* reduce((sum, x) => sum + x, 0)
RECURSIVE ReduceSum(_)
ReduceSum(s) == IF s = <<>> THEN 0 ELSE Head(s) + ReduceSum(Tail(s))

SumLatitude(s) == ReduceSum([x \in 1..Len(s) |-> s[x].latitude])
SumLongitude(s) == ReduceSum([x \in 1..Len(s) |-> s[x].longitude])
SumMagnitude(s) == ReduceSum([x \in 1..Len(s) |-> s[x].magnitude])

\* { ...points[randomIndex] }
CentroidCopy(p) == [latN |-> p.latitude, lngN |-> p.longitude, den |-> 1]

\* distance(point, centroid) squared, times centroid.den squared.
CentroidDistanceSqNum(point, c) ==
    LET latDiff == point.latitude * c.den - c.latN
        lngDiff == point.longitude * c.den - c.lngN
    IN  latDiff * latDiff + lngDiff * lngDiff

\* distance(point, c) < distance(point, best)
Closer(point, c, best) ==
    CentroidDistanceSqNum(point, c) * best.den * best.den
        < CentroidDistanceSqNum(point, best) * c.den * c.den

\* Fault variant of NearestCentroid: the fuzzy mode resolves a tie of
\* distances to the last centroid.
NearestCentroidFuzzyTies(point, cents) ==
    CHOOSE x \in 1..Len(cents) :
        \A y \in 1..Len(cents) :
            IF (IF subType = "Fuzzy C-means" THEN y > x ELSE y < x)
            THEN Closer(point, cents[x], cents[y])
            ELSE ~Closer(point, cents[y], cents[x])

\* clusterIndex after centroids.forEach((centroid, i) => if (dist < minDist)
\* ...): the index that is strictly nearer than every earlier one and that
\* no later one is strictly nearer than, the lowest index of least distance.
NearestCentroid(point, cents) ==
    CHOOSE x \in 1..Len(cents) :
        \A y \in 1..Len(cents) :
            IF y < x
            THEN Closer(point, cents[x], cents[y])
            ELSE ~Closer(point, cents[y], cents[x])

\* points.forEach((point) => clusters[clusterIndex].push(point)), cl being
\* the clusters so far.
RECURSIVE PushPoints(_, _, _)
PushPoints(points, cents, cl) ==
    IF points = <<>> THEN cl
    ELSE PushPoints(Tail(points), cents,
             [cl EXCEPT ![NearestCentroid(Head(points), cents)] =
                            Append(@, Head(points))])

\* clusters = Array.from({ length: k }, () => []) and the assignment pass.
AssignClusters(points, cents) ==
    PushPoints(points, cents, [c \in 1..Len(cents) |-> <<>>])

\* Math.abs(centroid.latitude - newLat) > 0.0001 ||
\* Math.abs(centroid.longitude - newLng) > 0.0001, for a non-empty cluster.
Moves(c, cluster) ==
    LET len == Len(cluster)
    IN  \/ Abs(c.latN * len - SumLatitude(cluster) * c.den)
              > CentroidEpsilon * c.den * len
        \/ Abs(c.lngN * len - SumLongitude(cluster) * c.den)
              > CentroidEpsilon * c.den * len

\* One call of the centroids.forEach callback of the update.
UpdateCentroid(c, cluster) ==
    IF Len(cluster) = 0 THEN c
    ELSE IF Moves(c, cluster)
    THEN [latN |-> SumLatitude(cluster), lngN |-> SumLongitude(cluster),
          den |-> Len(cluster)]
    ELSE c

\* let changed, after the update.
Changed(cents, cl) ==
    \E c \in 1..Len(cents) : Len(cl[c]) > 0 /\ Moves(cents[c], cl[c])

\* The k draws of Math.floor(Math.random() * points.length) and the copies.
KmeansInit ==
    /\ pc = "kstart"
    /\ \E d \in [1..kmeansK -> 1..Len(data)] :
          /\ draws' = d
          /\ centroids' = [c \in 1..kmeansK |-> CentroidCopy(data[d[c]])]
    /\ clusters' = [c \in 1..kmeansK |-> <<>>]
    /\ i' = 0
    /\ pc' = "kloop"
    /\ UNCHANGED <<kmeansUnused, data, subType, algorithm, kmeansK,
                   maxIterations, result>>

\* Fault variant of KmeansPass: the loop has no break.
KmeansPassNoBreak ==
    /\ pc = "kloop"
    /\ i < maxIterations
    /\ \E assigned \in {AssignClusters(data, centroids)} :
           /\ clusters' = assigned
           /\ centroids' = [c \in 1..kmeansK |->
                                UpdateCentroid(centroids[c], assigned[c])]
    /\ i' = i + 1
    /\ pc' = "kloop"
    /\ UNCHANGED <<kmeansUnused, data, subType, algorithm, kmeansK,
                   maxIterations, draws, result>>

\* One iteration of for (iter = 0; iter < maxIterations; iter++): the
\* assignment pass, the centroid update and if (!changed) break.
KmeansPass ==
    /\ pc = "kloop"
    /\ i < maxIterations
    /\ \E assigned \in {AssignClusters(data, centroids)} :
           /\ clusters' = assigned
           /\ centroids' = [c \in 1..kmeansK |->
                                UpdateCentroid(centroids[c], assigned[c])]
           /\ pc' = IF Changed(centroids, assigned) THEN "kloop" ELSE "kbreak"
    /\ i' = i + 1
    /\ UNCHANGED <<kmeansUnused, data, subType, algorithm, kmeansK,
                   maxIterations, draws, result>>

\* return { clusters, centroids }, and algorithmName of the dispatch.
KmeansReturn ==
    /\ \/ pc = "kbreak"
       \/ pc = "kloop" /\ i >= maxIterations
    /\ result' = [kind |-> "kmeans", clusters |-> clusters, centroids |-> centroids]
    /\ algorithm' = AlgorithmNameOf(subType)
    /\ pc' = "kreturned"
    /\ UNCHANGED <<kmeansUnused, data, subType, i, clusters, kmeansVars>>

\* The callback of clusteringResult.clusters.map (events carry no depth
\* here: avgDepth has the divisor of avgMagnitude).
ProcessedCluster(cluster, x) ==
    [id |-> x,
     size |-> Len(cluster),
     avgMagnitude |-> Divide(SumMagnitude(cluster), Len(cluster)),
     centroidLat |-> Divide(SumLatitude(cluster), Len(cluster)),
     centroidLng |-> Divide(SumLongitude(cluster), Len(cluster)),
     events |-> cluster]

\* processedClusters and the returned record of performClustering.
ProcessClusters ==
    /\ pc = "kreturned"
    /\ result' = [kind |-> "clustering",
                  algorithm |-> algorithm,
                  clusters |-> [c \in 1..Len(result.clusters) |->
                                   ProcessedCluster(result.clusters[c], c)]]
    /\ pc' = "kdone"
    /\ UNCHANGED <<kmeansUnused, data, subType, algorithm, i, clusters, kmeansVars>>

NextKmeans ==
    \/ KmeansInit
    \/ KmeansPass
    \/ KmeansReturn
    \/ ProcessClusters

SpecKmeans == InitKmeans /\ [][NextKmeans]_vars

\* The loop is sequential code: a step that can be taken is taken.
SpecKmeansFair == SpecKmeans /\ WF_vars(NextKmeans)

-----------------------------------------------------------------------------
(* Properties of kmeans (SpecKmeans, SpecKmeansFair)                       *)

\* C14: on a catalog of at least k events the k initial centroids are
\* copies of k distinct events: no two draws name the same event.
C14_DistinctInitialCentroids ==
    (pc \in {"kloop", "kbreak", "kreturned", "kdone"} /\ Len(data) >= kmeansK) =>
        \A a, b \in 1..kmeansK : a # b => draws[a] # draws[b]

\* A pass of the loop: it is taken below maxIterations only, and when no
\* centroid of a non-empty cluster would move by more than 0.0001 degree
\* the loop is left at once.
PassStops ==
    (pc = "kloop" /\ i' = i + 1) =>
        /\ i < maxIterations
        /\ ~Changed(centroids, clusters') => pc' = "kbreak"

\* Once the loop is left no further pass is made.
LeftForGood ==
    pc \in {"kbreak", "kreturned", "kdone"} => i' = i

\* C15: kmeans terminates; it makes at most maxIterations assignment passes
\* and stops right after the first pass in which no centroid would move by
\* more than 0.0001 degree.
C15_Terminates ==
    /\ [](i <= maxIterations)
    /\ [][PassStops /\ LeftForGood]_vars
    /\ <>(pc = "kdone")

\* The loop left by break after its third pass, below maxIterations.
C15_Witness ==
    /\ pc = "kbreak"
    /\ i = 3
    /\ i < maxIterations

\* C17: every cluster of the returned record has at least one member, and
\* none of its averages is NaN or Infinity.
C17_ClustersNonEmpty ==
    pc = "kdone" =>
        \A c \in 1..Len(result.clusters) :
            /\ result.clusters[c].size >= 1
            /\ result.clusters[c].avgMagnitude.kind = "number"
            /\ result.clusters[c].centroidLat.kind = "number"
            /\ result.clusters[c].centroidLng.kind = "number"

-----------------------------------------------------------------------------
(* performClustering called a second time on the same catalog, in either   *)
(* centroid mode: the first call's record, centroids and draws are kept    *)
(* in previous, and Math.random draws afresh.                              *)

\* performClustering(subType, data) called again.
KmeansAgain ==
    /\ run = 1
    /\ pc = "kdone"
    /\ previous' = [subType |-> subType, draws |-> draws,
                    centroids |-> centroids, result |-> result]
    /\ run' = 2
    /\ subType' \in ClusterSubTypes
    /\ centroids' = <<>>
    /\ draws' = <<>>
    /\ algorithm' = ""
    /\ pc' = "kstart"
    /\ i' = 0
    /\ clusters' = <<>>
    /\ result' = NoResult
    /\ UNCHANGED <<data, kmeansK, maxIterations, sortedData, mainshocks,
                   aftershocks, j, timeWindow, spaceWindow, noise, visited,
                   queue, eps, minPts, error, edaVars, otherVars>>

\* kmeans(points, 2) with the default maxIterations.
InitKmeansRepeat ==
    /\ InitKmeans
    /\ kmeansK = 2
    /\ maxIterations = 10

NextKmeansRepeat ==
    \/ NextKmeans
    \/ KmeansAgain

SpecKmeansRepeat == InitKmeansRepeat /\ [][NextKmeansRepeat]_vars

-----------------------------------------------------------------------------
(* Properties of the repeated centroid clustering (SpecKmeansRepeat)       *)

\* Two centroids of the same latitude and longitude.
SameCentroid(a, b) ==
    /\ a.latN * b.den = b.latN * a.den
    /\ a.lngN * b.den = b.lngN * a.den

\* C13: kmeans is reproducible: two runs in the same mode on the same
\* catalog with the same k (the code takes no seed, so with every argument
\* equal) return the same clusters and the same centroids.
C13_Reproducible ==
    (run = 2 /\ pc = "kdone" /\ subType = previous.subType) =>
        /\ result.clusters = previous.result.clusters
        /\ \A c \in 1..kmeansK : SameCentroid(centroids[c], previous.centroids[c])

-----------------------------------------------------------------------------
(* calculateBValue(grData): the least-squares slope of logN on magnitude,  *)
(* negated.                                                                *)
(*                                                                         *)
(* Units.  In a grData entry magnitude is in tenths and logN in            *)
(* thousandths, so a slope of the model is 100 times the slope of the      *)
(* code; the returned value is the rational num / den.                     *)

\* return 1.0
DefaultBValue == [kind |-> "number", num |-> 1, den |-> 1]

SumX(gr) == ReduceSum([x \in 1..Len(gr) |-> gr[x].magnitude])
SumY(gr) == ReduceSum([x \in 1..Len(gr) |-> gr[x].logN])
SumXY(gr) == ReduceSum([x \in 1..Len(gr) |-> gr[x].magnitude * gr[x].logN])
SumX2(gr) == ReduceSum([x \in 1..Len(gr) |-> gr[x].magnitude * gr[x].magnitude])

\* n * sumXY - sumX * sumY
RegressionNumerator(gr) == Len(gr) * SumXY(gr) - SumX(gr) * SumY(gr)

\* n * sumX2 - sumX * sumX
RegressionDenominator(gr) == Len(gr) * SumX2(gr) - SumX(gr) * SumX(gr)

\* Fault variant of CalculateBValue: the default is returned for an empty
\* series only.
CalculateBValueEmptyDefault(gr) ==
    IF Len(gr) < 1 THEN DefaultBValue
    ELSE Divide(-RegressionNumerator(gr), 100 * RegressionDenominator(gr))

\* Fault variant of CalculateBValue: the slope is returned as it is.
CalculateBValueSlope(gr) ==
    IF Len(gr) < 2 THEN DefaultBValue
    ELSE Divide(RegressionNumerator(gr), 100 * RegressionDenominator(gr))

CalculateBValue(gr) ==
    IF Len(gr) < 2 THEN DefaultBValue
    ELSE Divide(-RegressionNumerator(gr), 100 * RegressionDenominator(gr))

\* The magnitudes (tenths) and logN values (thousandths) a series is drawn
\* from: the points of logN = 4.0 - 1.0 M and of logN = 3.0 - 0.5 M at
\* M 2.0, 3.0 and 4.0 are among them.
SeriesMagnitudes == {20, 30, 40}
SeriesLogN == {0, 1000, 1500, 2000}

SeriesPoints ==
    { [magnitude |-> m, count |-> 1, logN |-> y] :
        m \in SeriesMagnitudes, y \in SeriesLogN }

\* Every series of at most MaxEvents entries.
Series == UNION { [1..n -> SeriesPoints] : n \in 0..MaxEvents }

InitBValue ==
    /\ FirstRun
    /\ OmoriIdle
    /\ PostIdle
    /\ KmeansIdle
    /\ grData \in Series
    /\ bValue = NoBValue
    /\ magnitudeCounts = <<>>
    /\ cumulativeCount = 0
    /\ data = <<>>
    /\ subType = "Gutenberg Richter Law"
    /\ sortedData = <<>>
    /\ algorithm = ""
    /\ pc = "bstart"
    /\ mainshocks = <<>>
    /\ aftershocks = <<>>
    /\ i = 0
    /\ j = 0
    /\ timeWindow = -1
    /\ spaceWindow = -1
    /\ clusters = <<>>
    /\ noise = <<>>
    /\ visited = {}
    /\ queue = <<>>
    /\ eps = 0
    /\ minPts = 0
    /\ result = NoResult
    /\ error = NoError

\* The variables the Gutenberg-Richter analysis leaves alone.
grUnused ==
    <<subType, sortedData, algorithm, mainshocks, aftershocks, j, timeWindow,
      spaceWindow, clusters, noise, visited, queue, eps, minPts, error,
      repeatVars, kmeansVars, otherVars>>

\* One call calculateBValue(grData).
BValueCall ==
    /\ pc = "bstart"
    /\ bValue' = CalculateBValue(grData)
    /\ pc' = "bdone"
    /\ UNCHANGED <<grUnused, data, i, result, magnitudeCounts,
                   cumulativeCount, grData>>

NextBValue == BValueCall

SpecBValue == InitBValue /\ [][NextBValue]_vars

-----------------------------------------------------------------------------
(* Properties of calculateBValue (SpecBValue)                              *)

\* The distinct magnitude bins of a series.
DistinctBins(gr) == { gr[x].magnitude : x \in 1..Len(gr) }

\* C19: with fewer than 2 bins the estimator returns the default 1.0; with
\* at least 2 distinct bins the denominator n * sum(M^2) - (sum M)^2 is not
\* zero and the returned value is a finite number.
C19_DefaultOrDefined ==
    pc = "bdone" =>
        /\ Len(grData) < 2 => bValue = DefaultBValue
        /\ Cardinality(DistinctBins(grData)) >= 2 =>
              /\ RegressionDenominator(grData) # 0
              /\ bValue.kind = "number"
              /\ bValue.den # 0

\* A series of three entries over two distinct bins, estimated.
C19_Witness ==
    /\ pc = "bdone"
    /\ Len(grData) = 3
    /\ Cardinality(DistinctBins(grData)) = 2
    /\ bValue.kind = "number"

\* The slopes (thousandths of logN per tenth of magnitude, negated) of the
\* lines through two points of SeriesPoints: b from -2.0 to 2.0.
Slopes == -200..200

\* Every entry lies on one line logN = a - b * M of negated slope b.
OnLine(gr, b) ==
    \A x, y \in 1..Len(gr) :
        gr[x].logN - gr[y].logN = -b * (gr[x].magnitude - gr[y].magnitude)

\* C20: for a series of at least 2 distinct bins whose logN values lie
\* exactly on a line logN = a - b * M the estimator returns b.
C20_RoundTrip ==
    (pc = "bdone" /\ Cardinality(DistinctBins(grData)) >= 2) =>
        \A b \in Slopes :
            OnLine(grData, b) =>
                /\ bValue.kind = "number"
                /\ bValue.num * 100 = b * bValue.den

\* The three points of logN = 4.0 - 1.0 M, estimated as b = 1.0.
C20_Witness ==
    /\ pc = "bdone"
    /\ Len(grData) = 3
    /\ Cardinality(DistinctBins(grData)) = 3
    /\ OnLine(grData, 100)
    /\ bValue.num * 100 = 100 * bValue.den

-----------------------------------------------------------------------------
(* performEDA, case "Gutenberg Richter Law".                               *)
(*                                                                         *)
(* Units.  A catalog of this analysis gives magnitude in hundredths, so    *)
(* that events of different magnitude share a 0.1 bin; a bin is in tenths. *)
(* Math.log10 is tabulated in thousandths.                                 *)

\* M2.00, 2.05, 2.10, 2.30 and 2.39 at one site.
GrPool ==
    { Ev(0, P0, 200), Ev(0, P0, 205), Ev(0, P0, 210), Ev(0, P0, 230),
      Ev(0, P0, 239) }

\* Every non-empty catalog of at most MaxEvents distinct objects over
\* GrPool (POST refuses an empty catalog).
GrCatalogs ==
    UNION { { [x \in 1..n |-> WithId(f[x], x)] : f \in [1..n -> GrPool] }
            : n \in 1..MaxEvents }

\* Math.floor(event.magnitude * 10) / 10, in tenths.
RoundedMag(m) == m \div 10

\* data.reduce((acc, event) => { acc[roundedMag] = (acc[roundedMag] || 0) + 1;
\* return acc }, {}), acc being the object so far.
RECURSIVE ReduceCounts(_, _)
ReduceCounts(s, acc) ==
    IF s = <<>> THEN acc
    ELSE LET roundedMag == RoundedMag(Head(s).magnitude)
         IN  ReduceCounts(Tail(s),
                 IF roundedMag \in DOMAIN acc
                 THEN [acc EXCEPT ![roundedMag] = @ + 1]
                 ELSE acc @@ (roundedMag :> 1))

\* .sort((a, b) => a - b) of a set of numbers.
RECURSIVE SortAscending(_)
SortAscending(S) ==
    IF S = {} THEN <<>>
    ELSE LET least == CHOOSE a \in S : \A b \in S : a <= b
         IN  <<least>> \o SortAscending(S \ {least})

\* const magnitudes = Object.keys(magnitudeCounts).map(Number).sort(...)
Magnitudes == SortAscending(DOMAIN magnitudeCounts)

\* Math.log10(n) in thousandths, n from 1 to 8.
Log10 == <<0, 301, 477, 602, 699, 778, 845, 903>>

InitGR ==
    /\ FirstRun
    /\ OmoriIdle
    /\ PostIdle
    /\ KmeansIdle
    /\ EdaIdle
    /\ data \in GrCatalogs
    /\ subType = "Gutenberg Richter Law"
    /\ sortedData = <<>>
    /\ algorithm = ""
    /\ pc = "grstart"
    /\ mainshocks = <<>>
    /\ aftershocks = <<>>
    /\ i = 0
    /\ j = 0
    /\ timeWindow = -1
    /\ spaceWindow = -1
    /\ clusters = <<>>
    /\ noise = <<>>
    /\ visited = {}
    /\ queue = <<>>
    /\ eps = 0
    /\ minPts = 0
    /\ result = NoResult
    /\ error = NoError

\* magnitudeCounts, magnitudes and let cumulativeCount = data.length.
GrCount ==
    /\ pc = "grstart"
    /\ magnitudeCounts' = ReduceCounts(data, <<>>)
    /\ cumulativeCount' = Len(data)
    /\ i' = 1
    /\ pc' = "grmap"
    /\ UNCHANGED <<grUnused, data, result, grData, bValue>>

\* Fault variant of GrBin: cumulativeCount is not reduced.
GrBinNoSubtract ==
    /\ pc = "grmap"
    /\ i <= Len(Magnitudes)
    /\ LET mag == Magnitudes[i]
           count == magnitudeCounts[mag]
           logN == Log10[cumulativeCount]
       IN  grData' = Append(grData, [magnitude |-> mag, count |-> count,
                                     logN |-> logN])
    /\ i' = i + 1
    /\ UNCHANGED <<grUnused, data, pc, result, magnitudeCounts,
                   cumulativeCount, bValue>>

\* One call of the magnitudes.map callback.
GrBin ==
    /\ pc = "grmap"
    /\ i <= Len(Magnitudes)
    /\ LET mag == Magnitudes[i]
           count == magnitudeCounts[mag]
           logN == Log10[cumulativeCount]
       IN  /\ cumulativeCount' = cumulativeCount - count
           /\ grData' = Append(grData, [magnitude |-> mag, count |-> count,
                                        logN |-> logN])
    /\ i' = i + 1
    /\ UNCHANGED <<grUnused, data, pc, result, magnitudeCounts, bValue>>

\* const bValue = calculateBValue(grData) and the returned record.
GrReturn ==
    /\ pc = "grmap"
    /\ i > Len(Magnitudes)
    /\ bValue' = CalculateBValue(grData)
    /\ result' = [kind |-> "eda",
                  message |-> "Gutenberg Richter Law analysis completed",
                  data |-> grData,
                  bValue |-> bValue']
    /\ pc' = "grdone"
    /\ UNCHANGED <<grUnused, data, i, magnitudeCounts, cumulativeCount, grData>>

NextGR ==
    \/ GrCount
    \/ GrBin
    \/ GrReturn

SpecGR == InitGR /\ [][NextGR]_vars

-----------------------------------------------------------------------------
(* Properties of the Gutenberg-Richter analysis (SpecGR)                   *)

\* The number of catalog events whose 0.1 bin is at or above bin.
AtOrAbove(bin) ==
    Cardinality({ x \in 1..Len(data) : RoundedMag(data[x].magnitude) >= bin })

\* C18: the logN of a bin is the base-10 logarithm of the number of events
\* whose bin is at or above it: the lowest bin carries the total count, the
\* highest bin its own count, and the counts strictly decrease as the bin
\* magnitude increases.
C18_CumulativeCounts ==
    pc = "grdone" =>
        LET gr == result.data
        IN  /\ { gr[x].magnitude : x \in 1..Len(gr) }
                  = { RoundedMag(data[x].magnitude) : x \in 1..Len(data) }
            /\ \A x \in 1..Len(gr) : gr[x].logN = Log10[AtOrAbove(gr[x].magnitude)]
            /\ gr[1].logN = Log10[Len(data)]
            /\ gr[Len(gr)].logN = Log10[gr[Len(gr)].count]
            /\ \A x, y \in 1..Len(gr) :
                  x < y => /\ gr[x].magnitude < gr[y].magnitude
                           /\ gr[x].logN > gr[y].logN

\* Three events in two bins, two of them sharing the lower bin.
C18_Witness ==
    /\ pc = "grdone"
    /\ Len(data) = 3
    /\ Len(result.data) = 2
    /\ result.data[1].count = 2
    /\ result.data[1].logN = Log10[3]
    /\ result.data[2].logN = Log10[1]

-----------------------------------------------------------------------------
(* calculateOmoriParameters(omoriData).                                    *)
(*                                                                         *)
(* Units.  logDay and logCount are in thousandths (Log10), so the slope    *)
(* of the model is the slope of the code; p and c are rationals num / den. *)

\* let p = 1.0
DefaultP == [kind |-> "number", num |-> 1, den |-> 1]

\* let c = 0.5
DefaultC == [kind |-> "number", num |-> 1, den |-> 2]

\* omoriData[0]?.count || 10
DefaultK == 10

\* The day bins and counts a series is drawn from.
OmoriDays == 0..3
OmoriCounts == 1..3

\* One entry of omoriData, as the Omori Law case maps a day bin.
OmoriPoint(day, count) ==
    [day |-> day, count |-> count, logDay |-> Log10[day + 1],
     logCount |-> Log10[count]]

\* Every omoriData of at most MaxEvents day bins: distinct days in
\* ascending order (.sort((a, b) => a.day - b.day)), counts of at least 1.
OmoriSeries ==
    UNION { { f \in [1..n -> { OmoriPoint(d, c) : d \in OmoriDays, c \in OmoriCounts }] :
                \A x, y \in 1..n : x < y => f[x].day < f[y].day }
            : n \in 0..MaxEvents }

OmoriSumX(od) == ReduceSum([x \in 1..Len(od) |-> od[x].logDay])
OmoriSumY(od) == ReduceSum([x \in 1..Len(od) |-> od[x].logCount])
OmoriSumXY(od) == ReduceSum([x \in 1..Len(od) |-> od[x].logDay * od[x].logCount])
OmoriSumX2(od) == ReduceSum([x \in 1..Len(od) |-> od[x].logDay * od[x].logDay])

\* omoriData[0]?.count || 10
FirstCountOr(od) ==
    IF Len(od) > 0 /\ od[1].count # 0 THEN od[1].count ELSE DefaultK

\* -(n * sumXY - sumX * sumY) / (n * sumX2 - sumX * sumX)
FitP(od) ==
    Divide(-(Len(od) * OmoriSumXY(od) - OmoriSumX(od) * OmoriSumY(od)),
           Len(od) * OmoriSumX2(od) - OmoriSumX(od) * OmoriSumX(od))

\* Fault variant of CalculateOmoriParameters: p is fitted from 2 bins on.
CalculateOmoriParametersTwoBins(od) ==
    [p |-> IF Len(od) >= 2 THEN FitP(od) ELSE DefaultP,
     c |-> DefaultC,
     K |-> FirstCountOr(od)]

CalculateOmoriParameters(od) ==
    [p |-> IF Len(od) >= 3 THEN FitP(od) ELSE DefaultP,
     c |-> DefaultC,
     K |-> FirstCountOr(od)]

InitOmori ==
    /\ FirstRun
    /\ PostIdle
    /\ KmeansIdle
    /\ EdaIdle
    /\ omoriData \in OmoriSeries
    /\ omoriParams = NoParams
    /\ data = <<>>
    /\ subType = "Omori Law"
    /\ sortedData = <<>>
    /\ algorithm = ""
    /\ pc = "ostart"
    /\ mainshocks = <<>>
    /\ aftershocks = <<>>
    /\ i = 0
    /\ j = 0
    /\ timeWindow = -1
    /\ spaceWindow = -1
    /\ clusters = <<>>
    /\ noise = <<>>
    /\ visited = {}
    /\ queue = <<>>
    /\ eps = 0
    /\ minPts = 0
    /\ result = NoResult
    /\ error = NoError

\* The variables of the declustering and clustering runs.
runLocals ==
    <<sortedData, algorithm, mainshocks, aftershocks, i, j, timeWindow,
      spaceWindow, clusters, noise, visited, queue, eps, minPts, error>>

\* One call calculateOmoriParameters(omoriData).
OmoriCall ==
    /\ pc = "ostart"
    /\ omoriParams' = CalculateOmoriParameters(omoriData)
    /\ pc' = "odone"
    /\ UNCHANGED <<runLocals, data, subType, result, repeatVars, kmeansVars,
                   edaVars, omoriData, postVars>>

NextOmori == OmoriCall

SpecOmori == InitOmori /\ [][NextOmori]_vars

-----------------------------------------------------------------------------
(* Properties of calculateOmoriParameters (SpecOmori)                      *)

\* The sums of products of the deviations from the means, times n squared.
CenteredCov(od) ==
    ReduceSum([x \in 1..Len(od) |->
                  (Len(od) * od[x].logDay - OmoriSumX(od))
                      * (Len(od) * od[x].logCount - OmoriSumY(od))])
CenteredVar(od) ==
    ReduceSum([x \in 1..Len(od) |->
                  (Len(od) * od[x].logDay - OmoriSumX(od))
                      * (Len(od) * od[x].logDay - OmoriSumX(od))])

\* C21: the estimator returns c = 0.5 and K = the count of the earliest
\* day bin (10 without bins); p is the negated least-squares slope of
\* logCount on logDay when there are at least 3 bins and 1.0 otherwise.
C21_OmoriParameters ==
    pc = "odone" =>
        /\ omoriParams.c = DefaultC
        /\ Len(omoriData) = 0 => omoriParams.K = DefaultK
        /\ Len(omoriData) > 0 =>
              /\ omoriParams.K = omoriData[1].count
              /\ \A x \in 1..Len(omoriData) : omoriData[1].day <= omoriData[x].day
        /\ Len(omoriData) < 3 => omoriParams.p = DefaultP
        /\ Len(omoriData) >= 3 =>
              /\ omoriParams.p.kind = "number"
              /\ omoriParams.p.num * Len(omoriData) = -CenteredCov(omoriData)
              /\ omoriParams.p.den * Len(omoriData) = CenteredVar(omoriData)

\* Three day bins of decreasing counts, fitted with a positive p.
C21_Witness ==
    /\ pc = "odone"
    /\ Len(omoriData) = 3
    /\ omoriData[1].count > omoriData[3].count
    /\ omoriParams.K = omoriData[1].count
    /\ omoriParams.p.num > 0
    /\ omoriParams.p.den > 0

-----------------------------------------------------------------------------
(* Properties of the statistics of performDeclustering (SpecRepeat)        *)

\* C22: the bValue fields of the declustering record are a function of the
\* catalog alone: two calls on the same catalog with the same strategy
\* report the same beforeDeclustering.bValue and afterDeclustering.bValue.
C22_BValueOfCatalog ==
    (run = 2 /\ pc = "done") =>
        /\ result.beforeDeclustering.bValue = previous.beforeDeclustering.bValue
        /\ result.afterDeclustering.bValue = previous.afterDeclustering.bValue

-----------------------------------------------------------------------------
(* performDeclustering on catalogs one event longer (SpecLong)              *)

\* Two co-located events of different magnitude at P0 and a later event at
\* P2, 0.9 degree away: three events at P0 are a DBSCAN cluster (minPts 3)
\* and the event at P2 is noise.
LongPool == { Ev(0, P0, 50), Ev(0, P0, 20), Ev(600, P2, 20) }

\* The catalogs of Catalogs and every catalog of MaxEvents + 1 events over
\* LongPool.
LongCatalogs ==
    Catalogs \cup
    { [k \in 1..(MaxEvents + 1) |-> WithId(f[k], k)] :
        f \in [1..(MaxEvents + 1) -> LongPool] }

InitLong ==
    /\ FirstRun
    /\ OmoriIdle
    /\ PostIdle
    /\ KmeansIdle
    /\ EdaIdle
    /\ data \in LongCatalogs
    /\ subType \in RequestSubTypes
    /\ sortedData = <<>>
    /\ algorithm = ""
    /\ pc = "start"
    /\ mainshocks = <<>>
    /\ aftershocks = <<>>
    /\ i = 0
    /\ j = 0
    /\ timeWindow = -1
    /\ spaceWindow = -1
    /\ clusters = <<>>
    /\ noise = <<>>
    /\ visited = {}
    /\ queue = <<>>
    /\ eps = 0
    /\ minPts = 0
    /\ result = NoResult
    /\ error = NoError

SpecLong == InitLong /\ [][Next]_vars

\* C28: for every declustering strategy the returned mainshocks are in
\* ascending time order, so afterDeclustering.meanTimeGap is never negative.
C28_MainshocksAscending ==
    pc = "done" =>
        /\ \A k \in 1..(Len(result.mainshocks) - 1) :
              result.mainshocks[k].time <= result.mainshocks[k + 1].time
        /\ result.afterDeclustering.meanTimeGap.num >= 0

-----------------------------------------------------------------------------
(* Core events of DBSCAN, in clustering and in declustering (SpecRepeat)    *)

\* getNeighbors(point, points).length >= minPts in dbscan of
\* performClustering.
IsCore(point) == Len(GetNeighbors(point, data)) >= minPts

\* The same test in the dbscan case of performDeclustering.
DeclusterIsCore(event) == Len(DeclusterGetNeighbors(event, sortedData)) >= minPts

\* Some cluster of cs holds both objects.
SameCluster(cs, e1, e2) ==
    \E c \in 1..Len(cs) : Includes(cs[c], e1) /\ Includes(cs[c], e2)

\* C25: in both DBSCAN implementations a core event is never put in noise
\* (it is a member of a cluster), and two core events within eps of each
\* other are members of the same cluster, whatever the order of the input.
C25_CoreEvents ==
    /\ pc = "cdone" =>
          \A p \in Range(data) :
              IsCore(p) =>
                  /\ ~Includes(result.noise, p)
                  /\ SameCluster(result.clusters, p, p)
                  /\ \A q \in Range(data) :
                        (IsCore(q) /\ ClusterDistanceSq(p, q) <= eps * eps)
                            => SameCluster(result.clusters, p, q)
    /\ (pc = "done" /\ algorithm = "dbscan") =>
          \A p \in Range(sortedData) :
              DeclusterIsCore(p) =>
                  /\ SameCluster(clusters, p, p)
                  /\ \A q \in Range(sortedData) :
                        (DeclusterIsCore(q) /\ DeclusterDistanceSq(p, q) <= eps * eps)
                            => SameCluster(clusters, p, q)

\* dbscan has returned a noise point and two distinct core points within
\* eps of each other, the later of which comes first in the input.
C25_Witness ==
    /\ pc = "cdone"
    /\ Len(result.noise) > 0
    /\ \E a, b \in 1..Len(data) :
          /\ a < b
          /\ IsCore(data[a]) /\ IsCore(data[b])
          /\ data[a].time > data[b].time
          /\ ClusterDistanceSq(data[a], data[b]) <= eps * eps
          /\ SameCluster(result.clusters, data[a], data[b])

-----------------------------------------------------------------------------
(* The partition made by the window strategies (Spec)                       *)

\* The admission test of the running strategy for laterEvent against the
\* mainshock event, with the windows of event's magnitude.
AdmissionTest(event, laterEvent) ==
    CASE algorithm = "nnd" ->
           NndAdmits(event, laterEvent, NndTimeWindow(event.magnitude),
                     NndSpaceWindow(event.magnitude))
      [] algorithm = "gruenthal" ->
           GruenthalAdmits(event, laterEvent, GruenthalTimeWindow(event.magnitude),
                           GruenthalSpaceWindow(event.magnitude))
      [] algorithm = "reasenberg" ->
           ReasenbergAdmits(event, laterEvent, ReasenbergSpaceWindow(event.magnitude))

\* C26: at the end of a window strategy no mainshock satisfies the admission
\* test of a mainshock that precedes it in the sorted catalog, and every
\* aftershock satisfies the admission test of at least one mainshock that
\* precedes it.
C26_IndependentMainshocks ==
    (pc = "done" /\ algorithm \in WindowAlgorithms) =>
        \A b \in 1..Len(sortedData) :
            /\ Includes(result.mainshocks, sortedData[b]) =>
                  \A a \in 1..(b - 1) :
                      Includes(result.mainshocks, sortedData[a])
                          => ~AdmissionTest(sortedData[a], sortedData[b])
            /\ Includes(result.aftershocks, sortedData[b]) =>
                  \E a \in 1..(b - 1) :
                      /\ Includes(result.mainshocks, sortedData[a])
                      /\ AdmissionTest(sortedData[a], sortedData[b])

\* A window run with two mainshocks and an aftershock that the first
\* mainshock refused and the second admitted.
C26_Witness ==
    /\ pc = "done"
    /\ algorithm \in WindowAlgorithms
    /\ Len(sortedData) = 3
    /\ Includes(result.mainshocks, sortedData[1])
    /\ Includes(result.mainshocks, sortedData[2])
    /\ Includes(result.aftershocks, sortedData[3])
    /\ ~AdmissionTest(sortedData[1], sortedData[3])
    /\ AdmissionTest(sortedData[2], sortedData[3])

\* C27: with p = 1.0 and c = 0.05 the Reasenberg rate test is a fixed time
\* window whatever the magnitudes: in an inner iteration a later event that
\* is not yet an aftershock and lies inside the space window is admitted
\* exactly when it is less than 9.95 days (859680 s) after the mainshock,
\* and an event 9.95 days or more after the mainshock is never admitted.
C27_FixedTimeWindow ==
    [][ (pc = "inner" /\ algorithm = "reasenberg") =>
          LET event == sortedData[i]
              laterEvent == sortedData[j]
              dt == laterEvent.time - event.time
          IN
          /\ dt >= 859680 => aftershocks' = aftershocks
          /\ ( /\ ~Includes(aftershocks, laterEvent)
               /\ DistanceSq(laterEvent, event)
                     <= ReasenbergSpaceWindow(event.magnitude) )
                => (Includes(aftershocks', laterEvent) <=> dt < 859680)
      ]_vars

\* A Reasenberg run in which a mainshock admitted a later event and refused
\* an event at the same site exactly 9.95 days after it.
C27_Witness ==
    /\ pc = "done"
    /\ algorithm = "reasenberg"
    /\ Len(sortedData) = 3
    /\ Includes(result.mainshocks, sortedData[1])
    /\ Includes(result.aftershocks, sortedData[2])
    /\ Includes(result.mainshocks, sortedData[3])
    /\ sortedData[3].time - sortedData[1].time = 859680
    /\ DistanceSq(sortedData[3], sortedData[1]) = 0

-----------------------------------------------------------------------------
(* The record returned by kmeans (SpecKmeans)                               *)

\* C29: the clusters kmeans returns agree with the centroids it returns:
\* every event is in the cluster of the returned centroid nearest to it
\* (the lowest index on ties), whether the loop stopped early or ran out of
\* iterations.
C29_ClustersMatchCentroids ==
    pc = "kreturned" =>
        \A c \in 1..Len(result.clusters) :
            \A x \in 1..Len(result.clusters[c]) :
                NearestCentroid(result.clusters[c][x], result.centroids) = c

-----------------------------------------------------------------------------
(* The histograms of performClustering and performDeclustering              *)
(* (SpecReport).  Magnitudes in tenths, depths in km, latitude and          *)
(* longitude in 1/100 degree.                                               *)

R0 == <<0, 0>>
R1 == <<3, 0>>
R2 == <<0, 8>>
R3 == <<15, 0>>
R4 == <<40, 0>>
R5 == <<100, 100>>

Rv(t, p, m, d) ==
    [time |-> t, latitude |-> p[1], longitude |-> p[2], magnitude |-> m, depth |-> d]

\* Events below, on and between the edges of the magnitude labels (1.9,
\* 2.0, 2.9, 3.0, 5.9, 6.0, 6.5), on the edges of the depth ranges, and at
\* sites 3.3, 8.9, 16.7, 44.4 and 157 km from R0.
ReportPool ==
    { Rv(0, R0, 19, 0), Rv(0, R0, 20, 5), Rv(10, R1, 29, 4), Rv(10, R2, 30, 10),
      Rv(20, R3, 59, 20), Rv(20, R4, 60, 39), Rv(30, R5, 65, 40), Rv(30, R0, 39, 100) }

ReportWithId(e, x) ==
    [id |-> x, time |-> e.time, latitude |-> e.latitude, longitude |-> e.longitude,
     magnitude |-> e.magnitude, depth |-> e.depth]

\* Every time-sorted catalog of 1..MaxEvents distinct objects over
\* ReportPool (performDeclustering throws on an empty catalog before any
\* histogram is made).
ReportCatalogs ==
    UNION { { [x \in 1..n |-> ReportWithId(f[x], x)] :
                f \in { g \in [1..n -> ReportPool] :
                          \A x \in 1..(n - 1) : g[x].time <= g[x + 1].time } }
            : n \in 1..MaxEvents }

\* The non-empty sublists of s.
SubLists(s) ==
    { Filter(s, keep) : keep \in (SUBSET Ids(s)) \ {{}} }

\* The splits of s into two clusters.
Splits(s) ==
    { <<SubSeq(s, 1, x), SubSeq(s, x + 1, Len(s))>> : x \in 0..Len(s) }

\* A parsed range: [min, max) or, when infinite, [min, Infinity).
RangeOf(lo, hi) == [min |-> lo, max |-> hi, infinite |-> FALSE]
RangeFrom(lo) == [min |-> lo, max |-> 0, infinite |-> TRUE]

\* magnitudeRanges of performClustering.
ClusterMagnitudeRanges == <<"2.0-2.9", "3.0-3.9", "4.0-4.9", "5.0-5.9">>

\* magnitudeRanges of performDeclustering.
MagnitudeRanges == <<"2.0-2.9", "3.0-3.9", "4.0-4.9", "5.0-5.9", "6.0+">>

depthRanges == <<"0-5 km", "5-10 km", "10-20 km", "20-40 km", "40+ km">>

distanceRanges == <<"0-5 km", "5-10 km", "10-20 km", "20-50 km", "50+ km">>

\* range.includes("+") ? [parseFloat(range.split("+")[0]), Infinity]
\*                      : range.split("-").map(parseFloat), in tenths.
ParseMagnitudeRange(range) ==
    CASE range = "2.0-2.9" -> RangeOf(20, 29)
      [] range = "3.0-3.9" -> RangeOf(30, 39)
      [] range = "4.0-4.9" -> RangeOf(40, 49)
      [] range = "5.0-5.9" -> RangeOf(50, 59)
      [] range = "6.0+" -> RangeFrom(60)

\* Fault variant of ParseKmRange: the last depth range starts at 50 km.
ParseKmRangeLate(range) ==
    CASE range = "0-5 km" -> RangeOf(0, 5)
      [] range = "5-10 km" -> RangeOf(5, 10)
      [] range = "10-20 km" -> RangeOf(10, 20)
      [] range = "20-40 km" -> RangeOf(20, 40)
      [] range = "20-50 km" -> RangeOf(20, 50)
      [] range = "40+ km" -> RangeFrom(50)
      [] range = "50+ km" -> RangeFrom(50)

\* The same parse of range.split(" ")[0] for depthRanges and distanceRanges,
\* in km.
ParseKmRange(range) ==
    CASE range = "0-5 km" -> RangeOf(0, 5)
      [] range = "5-10 km" -> RangeOf(5, 10)
      [] range = "10-20 km" -> RangeOf(10, 20)
      [] range = "20-40 km" -> RangeOf(20, 40)
      [] range = "20-50 km" -> RangeOf(20, 50)
      [] range = "40+ km" -> RangeFrom(40)
      [] range = "50+ km" -> RangeFrom(50)

\* v >= min && (max === Infinity || v < max)
InRange(v, r) == v >= r.min /\ (r.infinite \/ v < r.max)

\* events.filter((event) => magnitude in r).length
CountMagnitude(events, r) ==
    Cardinality({ x \in 1..Len(events) : InRange(events[x].magnitude, r) })

\* events.filter((event) => depth in r).length
CountDepth(events, r) ==
    Cardinality({ x \in 1..Len(events) : InRange(events[x].depth, r) })

\* latDiff^2 + lngDiff^2 between the events at x and y, in (1/100 degree)^2.
ReportDistanceSq(events, x, y) ==
    LET latDiff == events[x].latitude - events[y].latitude
        lngDiff == events[x].longitude - events[y].longitude
    IN  latDiff * latDiff + lngDiff * lngDiff

\* minDistance of the event at x after the loop over j # x: the squared
\* degree distance to its nearest neighbour, or Infinity without one.
MinDistance(events, x) ==
    LET others == (1..Len(events)) \ {x} IN
    IF others = {} THEN [kind |-> "Infinity"]
    ELSE [kind |-> "number",
          sq |-> ReportDistanceSq(events, x,
                     CHOOSE y \in others :
                         \A z \in others :
                             ReportDistanceSq(events, x, y)
                                 <= ReportDistanceSq(events, x, z))]

\* minDistance >= minKm && (maxKm === Infinity || minDistance < maxKm) with
\* distKm = distDegrees * 111: for d = sqrt(sq) / 100 degrees,
\* 111 * d >= km is 12321 * sq >= 10000 * km * km.
DistanceInRange(d, r) ==
    IF d.kind = "Infinity" THEN r.infinite
    ELSE /\ 12321 * d.sq >= 10000 * r.min * r.min
         /\ (r.infinite \/ 12321 * d.sq < 10000 * r.max * r.max)

\* The count of one distance range.
CountDistance(events, r) ==
    Cardinality({ x \in 1..Len(events) : DistanceInRange(MinDistance(events, x), r) })

InitReport ==
    /\ FirstRun
    /\ OmoriIdle
    /\ PostIdle
    /\ KmeansIdle
    /\ EdaIdle
    /\ sortedData \in ReportCatalogs
    /\ data = sortedData
    /\ \/ pc = "rstart" /\ mainshocks \in SubLists(sortedData) /\ clusters = <<>>
       \/ pc = "crstart" /\ mainshocks = <<>> /\ clusters \in Splits(sortedData)
    /\ subType = ""
    /\ algorithm = ""
    /\ aftershocks = <<>>
    /\ i = 0
    /\ j = 0
    /\ timeWindow = -1
    /\ spaceWindow = -1
    /\ noise = <<>>
    /\ visited = {}
    /\ queue = <<>>
    /\ eps = 0
    /\ minPts = 0
    /\ result = NoResult
    /\ error = NoError

\* magnitudeDistribution, depthDistribution and nndDistribution of
\* performDeclustering.
DeclusterReport ==
    /\ pc = "rstart"
    /\ result' =
         [kind |-> "declustering report",
          totalEvents |-> Len(sortedData),
          magnitudeDistribution |->
              [b \in 1..Len(MagnitudeRanges) |->
                  [magnitude |-> MagnitudeRanges[b],
                   before |-> CountMagnitude(sortedData,
                                  ParseMagnitudeRange(MagnitudeRanges[b])),
                   after |-> CountMagnitude(mainshocks,
                                  ParseMagnitudeRange(MagnitudeRanges[b]))]],
          depthDistribution |->
              [b \in 1..Len(depthRanges) |->
                  [depth |-> depthRanges[b],
                   before |-> CountDepth(sortedData, ParseKmRange(depthRanges[b])),
                   after |-> CountDepth(mainshocks, ParseKmRange(depthRanges[b]))]],
          nndDistribution |->
              [b \in 1..Len(distanceRanges) |->
                  [distance |-> distanceRanges[b],
                   count |-> CountDistance(sortedData,
                                 ParseKmRange(distanceRanges[b]))]]]
    /\ pc' = "rdone"
    /\ UNCHANGED <<auxVars, data, subType, sortedData, algorithm, mainshocks,
                   aftershocks, i, j, timeWindow, spaceWindow, clusters, noise,
                   visited, queue, eps, minPts, error>>

\* magnitudeDistribution of performClustering: one count per range and
\* cluster.
ClusterReport ==
    /\ pc = "crstart"
    /\ result' =
         [kind |-> "clustering report",
          magnitudeDistribution |->
              [b \in 1..Len(ClusterMagnitudeRanges) |->
                  [magnitude |-> ClusterMagnitudeRanges[b],
                   cluster |->
                       [c \in 1..Len(clusters) |->
                           CountMagnitude(clusters[c],
                               ParseMagnitudeRange(ClusterMagnitudeRanges[b]))]]]]
    /\ pc' = "crdone"
    /\ UNCHANGED <<auxVars, data, subType, sortedData, algorithm, mainshocks,
                   aftershocks, i, j, timeWindow, spaceWindow, clusters, noise,
                   visited, queue, eps, minPts, error>>

NextReport ==
    \/ DeclusterReport
    \/ ClusterReport

SpecReport == InitReport /\ [][NextReport]_vars

\* Math.floor(magnitude), magnitude in tenths.
FloorMagnitude(e) == e.magnitude \div 10

\* The sum of the numbers f[1] .. f[n].
RECURSIVE SumTo(_, _)
SumTo(f, n) == IF n = 0 THEN 0 ELSE f[n] + SumTo(f, n - 1)

\* C23: the magnitude histograms use 1.0-wide bins: the bin labelled from
\* b.0 counts exactly the events with floor(m) = b, for b = 2..5, in the
\* declustering histogram and per cluster in the clustering histogram; the
\* "6.0+" bin counts the events with m >= 6.0; and the before counts of the
\* declustering histogram sum to the number of events with m >= 2.0.
C23_MagnitudeBins ==
    /\ pc = "rdone" =>
          /\ \A b \in 1..4 :
                result.magnitudeDistribution[b].before
                    = Cardinality({ x \in 1..Len(sortedData) :
                                      FloorMagnitude(sortedData[x]) = b + 1 })
          /\ result.magnitudeDistribution[5].before
                = Cardinality({ x \in 1..Len(sortedData) :
                                  sortedData[x].magnitude >= 60 })
          /\ SumTo([b \in 1..5 |-> result.magnitudeDistribution[b].before], 5)
                = Cardinality({ x \in 1..Len(sortedData) :
                                  sortedData[x].magnitude >= 20 })
    /\ pc = "crdone" =>
          \A b \in 1..4 : \A c \in 1..Len(clusters) :
              result.magnitudeDistribution[b].cluster[c]
                  = Cardinality({ x \in 1..Len(clusters[c]) :
                                    FloorMagnitude(clusters[c][x]) = b + 1 })

\* C30: for a non-empty catalog with depths of at least 0 the before counts
\* of the depth histogram sum to totalEvents, and so do the counts of the
\* nearest-neighbour distance histogram, a single-event catalog included.
C30_EveryEventCounted ==
    pc = "rdone" =>
        /\ SumTo([b \in 1..5 |-> result.depthDistribution[b].before], 5)
              = result.totalEvents
        /\ SumTo([b \in 1..5 |-> result.nndDistribution[b].count], 5)
              = result.totalEvents

\* A report on three events with three different nearest-neighbour ranges
\* and three different depth ranges, the last range of each included.
C30_Witness ==
    /\ pc = "rdone"
    /\ result.totalEvents = 3
    /\ result.depthDistribution[5].before = 1
    /\ result.depthDistribution[1].before = 1
    /\ result.nndDistribution[5].count = 1
    /\ result.nndDistribution[1].count = 2

-----------------------------------------------------------------------------
(* The POST handler and fetchUSGSData (SpecPost)                            *)

MAX_RETRIES == 3

SampleLength == 50

AnalysisTypes ==
    {"EDA", "Earthquake Magnitude Prediction", "Earthquake Clustering",
     "Earthquake Declustering"}

\* Array.from({ length: 50 }, ...): the generated events, their random
\* fields left out.
SampleData == [x \in 1..SampleLength |-> [id |-> x, generated |-> TRUE]]

\* What a successful fetch or parse can deliver: no event or one event.
FetchedData == { <<>>, <<WithId(Ev(0, P0, 20), 1)>> }

\* NextResponse.json({ error }, { status })
ErrorResponse(code, message) == [status |-> code, error |-> message]

\* The variables POST and fetchUSGSData leave alone.
postUnused ==
    <<repeatVars, kmeansVars, edaVars, omoriVars, runLocals, result,
      nodeEnv, dataSource, analysisType, subType>>

InitPost ==
    /\ FirstRun
    /\ OmoriIdle
    /\ KmeansIdle
    /\ EdaIdle
    /\ nodeEnv \in {"development", "production"}
    /\ dataSource \in {"USGS", "NSC", "Other", ""}
    /\ analysisType \in AnalysisTypes \cup {"Other", ""}
    /\ subType \in {"DBSCAN", ""}
    /\ retries = 0
    /\ dataOrigin = "none"
    /\ called = "none"
    /\ response = NoResponse
    /\ pc = "pstart"
    /\ data = <<>>
    /\ sortedData = <<>>
    /\ algorithm = ""
    /\ mainshocks = <<>>
    /\ aftershocks = <<>>
    /\ i = 0
    /\ j = 0
    /\ timeWindow = -1
    /\ spaceWindow = -1
    /\ clusters = <<>>
    /\ noise = <<>>
    /\ visited = {}
    /\ queue = <<>>
    /\ eps = 0
    /\ minPts = 0
    /\ result = NoResult
    /\ error = NoError

\* JSON.parse(parametersRaw), the required fields, and the dispatch on
\* dataSource up to the call of fetchUSGSData or parseNSCData.
PostStart ==
    /\ pc = "pstart"
    /\ \E parsed, file \in BOOLEAN :
          IF ~parsed
          THEN /\ response' = ErrorResponse(400, "Invalid parameters format")
               /\ pc' = "presponded"
          ELSE IF dataSource = "" \/ analysisType = "" \/ subType = ""
          THEN /\ response' = ErrorResponse(400, "Missing required fields")
               /\ pc' = "presponded"
          ELSE IF dataSource = "USGS"
          THEN /\ pc' = "pfetch"
               /\ UNCHANGED response
          ELSE IF dataSource = "NSC"
          THEN IF ~file
               THEN /\ response' = ErrorResponse(400, "No file uploaded for NSC data source")
                    /\ pc' = "presponded"
               ELSE /\ pc' = "pparse"
                    /\ UNCHANGED response
          ELSE /\ response' = ErrorResponse(400, "Invalid data source")
               /\ pc' = "presponded"
    /\ UNCHANGED <<postUnused, data, retries, dataOrigin, called>>

\* catch (dataError) of POST: generated events in development, whatever the
\* analysis type, else the 500 response.
DataErrorCatch(message) ==
    IF nodeEnv = "development"
    THEN /\ data' = SampleData
         /\ dataOrigin' = "sample"
         /\ pc' = "pcheck"
         /\ UNCHANGED response
    ELSE /\ response' = ErrorResponse(500, "Data error: " \o message)
         /\ pc' = "presponded"
         /\ UNCHANGED <<data, dataOrigin>>

\* One round of while (retries < MAX_RETRIES): the request succeeds and its
\* features are mapped to data (for the prediction analysis the historical
\* events, when that fetch succeeds, are put in front), or it fails and
\* retries is incremented.
FetchAttempt ==
    /\ pc = "pfetch"
    /\ retries < MAX_RETRIES
    /\ \/ /\ \E fetched, historical \in FetchedData :
                data' = IF analysisType = "Earthquake Magnitude Prediction"
                        THEN historical \o fetched
                        ELSE fetched
          /\ dataOrigin' = "source"
          /\ pc' = "pcheck"
          /\ UNCHANGED retries
       \/ /\ retries' = retries + 1
          /\ UNCHANGED <<data, dataOrigin, pc>>
    /\ UNCHANGED <<postUnused, called, response>>

\* After the loop of fetchUSGSData: generateSampleUSGSData() in development
\* when isDeclustering is false, else throw lastError into the catch of POST.
FetchGiveUp ==
    /\ pc = "pfetch"
    /\ retries >= MAX_RETRIES
    /\ IF nodeEnv = "development" /\ analysisType # "Earthquake Declustering"
       THEN /\ data' = SampleData
            /\ dataOrigin' = "sample"
            /\ pc' = "pcheck"
            /\ UNCHANGED response
       ELSE DataErrorCatch("USGS API request failed")
    /\ UNCHANGED <<postUnused, retries, called>>

\* data = await parseNSCData(file): the parsed events, or a throw into the
\* catch of POST.
ParseNsc ==
    /\ pc = "pparse"
    /\ \/ /\ \E parsed \in FetchedData : data' = parsed
          /\ dataOrigin' = "source"
          /\ pc' = "pcheck"
          /\ UNCHANGED response
       \/ DataErrorCatch("Failed to parse CSV file. Please check the file format.")
    /\ UNCHANGED <<postUnused, retries, called>>

\* if (!data || data.length === 0): generated events in development for an
\* analysis other than declustering, else a throw into the outer catch.
CheckData ==
    /\ pc = "pcheck"
    /\ IF Len(data) > 0
       THEN /\ pc' = "panalyze"
            /\ UNCHANGED <<data, dataOrigin, response>>
       ELSE IF nodeEnv = "development" /\ analysisType # "Earthquake Declustering"
       THEN /\ data' = SampleData
            /\ dataOrigin' = "sample"
            /\ pc' = "panalyze"
            /\ UNCHANGED response
       ELSE /\ response' =
                  ErrorResponse(500,
                      IF analysisType = "Earthquake Declustering"
                      THEN "No earthquake data available for declustering analysis. Please adjust your search parameters to include more data."
                      ELSE "No earthquake data available. Please adjust your search parameters.")
            /\ pc' = "presponded"
            /\ UNCHANGED <<data, dataOrigin>>
    /\ UNCHANGED <<postUnused, retries, called>>

FunctionOf(type) ==
    CASE type = "EDA" -> "performEDA"
      [] type = "Earthquake Magnitude Prediction" -> "performMagnitudePrediction"
      [] type = "Earthquake Clustering" -> "performClustering"
      [] type = "Earthquake Declustering" -> "performDeclustering"

\* switch (analysisType): the analysis function is run on data and either
\* returns (200) or throws (500); any other type is answered with 400.
Analyze ==
    /\ pc = "panalyze"
    /\ IF analysisType \in AnalysisTypes
       THEN /\ called' = FunctionOf(analysisType)
            /\ \E thrown \in BOOLEAN :
                  response' = IF thrown THEN ErrorResponse(500, "Error during analysis")
                              ELSE [status |-> 200, analysisType |-> analysisType,
                                    events |-> Len(data)]
       ELSE /\ response' = ErrorResponse(400, "Invalid analysis type")
            /\ UNCHANGED called
    /\ pc' = "presponded"
    /\ UNCHANGED <<postUnused, data, retries, dataOrigin>>

NextPost ==
    \/ PostStart
    \/ FetchAttempt
    \/ FetchGiveUp
    \/ ParseNsc
    \/ CheckData
    \/ Analyze

SpecPost == InitPost /\ [][NextPost]_vars

\* C24: generated sample data is never used for declustering: in
\* development mode a declustering request whose fetch or parse failed ends
\* in an error response, and performDeclustering is never run on generated
\* events.
C24_NoSampleDeclustering ==
    /\ called = "performDeclustering" => dataOrigin # "sample"
    /\ (pc = "presponded" /\ analysisType = "Earthquake Declustering"
          /\ dataOrigin = "sample") => response.status >= 400

====
